---- MODULE Spec2Model ----
(***************************************************************************)
(* A model of the in-memory B+ tree of krasun/bptree: the tree engine      *)
(* (Get, Put with split propagation, Delete with borrow / merge / root     *)
(* collapse), Size, ForEach and the chained-leaf Iterator.                 *)
(*                                                                         *)
(* Nodes live in a heap addressed by integers (0 is the nil reference).    *)
(* Go slices are 0-based; the sequences below are 1-based, so slot i of    *)
(* the code is element i + 1 here.  A byte slice is a sequence of bytes;   *)
(* bytes.Compare and len treat a nil slice and an empty slice alike and    *)
(* so does the model (both are << >>).                                     *)
(***************************************************************************)
EXTENDS Integers, Sequences, FiniteSets, TLC

\* ---------------------------------------------------------------- bounds
\* number of distinct keys the callers draw from
NumKeys == 6
\* number of keys the callers store more than one value under
VariedKeys == 2
\* the orders trees are constructed with: MinOrder..MaxOrder
MaxOrder == 7
\* number of iterators that may be alive at the same time
NumIters == 1
\* callers step an iterator through trees of at most this many keys (ForEach
\* drains an iterator on every tree)
MaxIterated == 4
\* number of iterators the callers that read side by side hold
NumReaders == 2
\* the orders the splits and merges of prepared trees are made at:
\* MinOrder..MaxPreparedOrder
MaxPreparedOrder == 12

\* ------------------------------------------------------ program constants
\* the smallest order Order() accepts
MinOrder == 3
\* order of a tree constructed without the Order option
defaultOrder == 4

Nil == 0

\* the keys of the callers, in no particular order; the empty key is one
KeyList ==
  << <<1>>, <<0, 1>>, <<2>>, << >>, <<1, 0>>, <<0>>, <<1, 1>>, <<3>>, <<0, 0>>,
     <<2, 0>>, <<1, 2>>, <<4>> >>

\* the keys the callers of a tree of order o draw from: NumKeys of them, and
\* as many as the order where that is more, so that a leaf of every order
\* can fill up and split
KeysOf(o) == { KeyList[i] : i \in 1..(IF o > NumKeys THEN o ELSE NumKeys) }

\* the values of the callers: every key has a value of its own, and the
\* first VariedKeys keys are also stored with the empty value
OwnValue(key) == <<7>> \o key
ValuesOf(key) ==
  {OwnValue(key)} \cup
  (IF \E i \in 1..VariedKeys : KeyList[i] = key THEN {<< >>} ELSE {})

Orders == MinOrder..MaxOrder

\* ------------------------------------------------------------ byte slices
\* A byte slice is a sequence of cells of its backing array.  A cell is a
\* number: cell % 256 is the byte it holds and cell \div 256 names the
\* array, 0 for an array that only the tree refers to and 1 for the buffer
\* a caller passed to Put and still holds.  The tree never re-slices a key,
\* so two key slices share memory exactly when their cells name the same
\* array; a write of the caller to its buffer is read by every slice that
\* shares it.
byteOf(c) == c % 256

RECURSIVE compareFrom(_, _, _)
compareFrom(x, y, i) ==
  IF i > Len(x) /\ i > Len(y) THEN 0
  ELSE IF i > Len(x) THEN -1
  ELSE IF i > Len(y) THEN 1
  ELSE IF byteOf(x[i]) < byteOf(y[i]) THEN -1
  ELSE IF byteOf(x[i]) > byteOf(y[i]) THEN 1
  ELSE compareFrom(x, y, i + 1)

\* a comparison under which an empty slice equals nothing
compareEmptyUnequal(x, y) == IF Len(x) = 0 THEN -1 ELSE compareFrom(x, y, 1)

\* bytes.Compare: lexicographic, a proper prefix is smaller
compare(x, y) == compareFrom(x, y, 1)

less(x, y) == compare(x, y) < 0

\* a fresh slice of the same length with each byte copied
copyBytes(s) == [i \in 1..Len(s) |-> byteOf(s[i])]

\* the buffer of a caller filled with the bytes of s
callerBuffer(s) == [i \in 1..Len(s) |-> 256 + byteOf(s[i])]

\* whether the slice s is backed by the buffer of the caller
sharesCallerBuffer(s) == \E i \in 1..Len(s) : s[i] \div 256 = 1

\* ceil that adds one also when the division is exact
ceilOfNextMultiple(x, y) == (x \div y) + 1

\* integer ceiling division
ceil(x, y) == IF x % y = 0 THEN x \div y ELSE (x \div y) + 1

\* --------------------------------------------------------------- pointers
\* a slot of node.pointers: nil, or a pointer wrapping a value or a node
NilP == [k |-> "nil", n |-> Nil, v |-> << >>]
ValP(v) == [k |-> "val", n |-> Nil, v |-> v]
NodeP(n) == [k |-> "node", n |-> n, v |-> << >>]

\* p.value.(*node) and p.value.([]byte) panic on a nil pointer and on a
\* value of the other type
okNode(p) == p.k = "node"
okValue(p) == p.k = "val"
asNode(p) == p.n
asValue(p) == p.v

\* ------------------------------------------------------------------ heap
\* A world is the tree object together with the heap of nodes and a flag
\* that records a runtime panic (nil dereference, index out of range,
\* failed type assertion, explicit panic).  Once set, the flag stays set
\* and the rest of the call has no effect.
newNode(isLeaf, order) ==
  [leaf |-> isLeaf, parent |-> Nil,
   keys |-> [i \in 1..(order - 1) |-> << >>], keyNum |-> 0,
   pointers |-> [i \in 1..order |-> NilP]]

IsNode(w, id) == id \in DOMAIN w.nodes

Chk(w, c) == IF c THEN w ELSE [w EXCEPT !.fault = TRUE]

\* a note of which structural step a call took (a history of the call, read
\* by no operation)
Mark(w, e) == IF w.fault THEN w ELSE [w EXCEPT !.ev = @ \cup {e}]

\* smallest unused address
Alloc(w) == CHOOSE id \in 1..(Cardinality(DOMAIN w.nodes) + 1) :
              /\ id \notin DOMAIN w.nodes
              /\ \A j \in 1..(id - 1) : j \in DOMAIN w.nodes

\* reads; a read through a bad reference or index yields the zero value and
\* is guarded by okKey / okPtr / IsNode at the place of the read
okKey(w, id, i) == IsNode(w, id) /\ i >= 0 /\ i < Len(w.nodes[id].keys)
okPtr(w, id, i) == IsNode(w, id) /\ i >= 0 /\ i < Len(w.nodes[id].pointers)
keyAt(w, id, i) == IF okKey(w, id, i) THEN w.nodes[id].keys[i + 1] ELSE << >>
ptrAt(w, id, i) == IF okPtr(w, id, i) THEN w.nodes[id].pointers[i + 1] ELSE NilP
keyNumOf(w, id) == IF IsNode(w, id) THEN w.nodes[id].keyNum ELSE 0
isLeaf(w, id) == IF IsNode(w, id) THEN w.nodes[id].leaf ELSE TRUE
parentOf(w, id) == IF IsNode(w, id) THEN w.nodes[id].parent ELSE Nil
lenKeys(w, id) == IF IsNode(w, id) THEN Len(w.nodes[id].keys) ELSE 0
lenPointers(w, id) == IF IsNode(w, id) THEN Len(w.nodes[id].pointers) ELSE 0

\* writes
setKey(w, id, i, key) ==
  IF w.fault THEN w
  ELSE IF ~okKey(w, id, i) THEN Chk(w, FALSE)
  ELSE [w EXCEPT !.nodes[id].keys[i + 1] = key]

setPtr(w, id, i, p) ==
  IF w.fault THEN w
  ELSE IF ~okPtr(w, id, i) THEN Chk(w, FALSE)
  ELSE [w EXCEPT !.nodes[id].pointers[i + 1] = p]

setKeyNum(w, id, n) ==
  IF w.fault THEN w
  ELSE IF ~IsNode(w, id) THEN Chk(w, FALSE)
  ELSE [w EXCEPT !.nodes[id].keyNum = n]

setParent(w, id, p) ==
  IF w.fault THEN w
  ELSE IF ~IsNode(w, id) THEN Chk(w, FALSE)
  ELSE [w EXCEPT !.nodes[id].parent = p]

\* n.pointers[i].asNode().parent = p
setParentOfPtr(w, id, i, p) ==
  IF w.fault THEN w
  ELSE IF ~(okPtr(w, id, i) /\ okNode(ptrAt(w, id, i))) THEN Chk(w, FALSE)
  ELSE setParent(w, asNode(ptrAt(w, id, i)), p)

\* the result of a call: the world after it, the returned slice and flag
Ret(w, val, ok) == [w |-> w, val |-> val, ok |-> ok]
\* the result of a call that panicked
Panicked(w) == [w |-> [w EXCEPT !.fault = TRUE], val |-> << >>, ok |-> FALSE]

\* ------------------------------------------------------------------ node
\* setNext / next: the last pointer slot of a leaf links to the next leaf
setNext(w, id, p) == setPtr(w, id, lenPointers(w, id) - 1, p)
next(w, id) == ptrAt(w, id, lenPointers(w, id) - 1)
lastPointer(w, id) == ptrAt(w, id, lenPointers(w, id) - 1)

\* keyPosition as an earlier revision had it: the key in the last occupied
\* slot is reported as not present
keyPositionSkipsLast(w, id, key) ==
  LET found == CHOOSE i \in -1..(keyNumOf(w, id) - 1) :
                 /\ i # -1 => compare(key, keyAt(w, id, i)) = 0
                 /\ i = -1 => \A j \in 0..(keyNumOf(w, id) - 1) :
                                compare(key, keyAt(w, id, j)) # 0
  IN  IF found = keyNumOf(w, id) - 1 THEN -1 ELSE found

RECURSIVE keyPositionFrom(_, _, _, _)
keyPositionFrom(w, id, key, keyPosition) ==
  IF keyPosition < keyNumOf(w, id)
  THEN IF compare(key, keyAt(w, id, keyPosition)) = 0 THEN keyPosition
       ELSE keyPositionFrom(w, id, key, keyPosition + 1)
  ELSE -1

\* the position of the key in the node, -1 if it is not present
keyPosition(w, id, key) == keyPositionFrom(w, id, key, 0)

RECURSIVE pointerPositionFrom(_, _, _, _)
pointerPositionFrom(w, id, x, position) ==
  IF position >= lenPointers(w, id) THEN -1
  ELSE IF ptrAt(w, id, position) = NilP THEN -1
  ELSE IF ~okNode(ptrAt(w, id, position)) THEN -2
  ELSE IF asNode(ptrAt(w, id, position)) = x THEN position
  ELSE pointerPositionFrom(w, id, x, position + 1)

\* the pointer position of node x in node id, -1 if not found (-2: the
\* type assertion of asNode failed on a value pointer)
pointerPositionOf(w, id, x) == pointerPositionFrom(w, id, x, 0)

RECURSIVE shiftKeysRight(_, _, _, _)
shiftKeysRight(w, id, j, pos) ==
  IF w.fault \/ j <= pos THEN w
  ELSE shiftKeysRight(setKey(Chk(w, okKey(w, id, j - 1)), id, j,
                             keyAt(w, id, j - 1)), id, j - 1, pos)

\* shiftPointersRight that leaves the pointer at the insert position behind
RECURSIVE shiftPointersRightStopsEarly(_, _, _, _)
shiftPointersRightStopsEarly(w, id, j, pos) ==
  IF w.fault \/ j <= pos + 1 THEN w
  ELSE shiftPointersRightStopsEarly(
         setPtr(Chk(w, okPtr(w, id, j - 1)), id, j, ptrAt(w, id, j - 1)),
         id, j - 1, pos)

RECURSIVE shiftPointersRight(_, _, _, _)
shiftPointersRight(w, id, j, pos) ==
  IF w.fault \/ j <= pos THEN w
  ELSE shiftPointersRight(setPtr(Chk(w, okPtr(w, id, j - 1)), id, j,
                                 ptrAt(w, id, j - 1)), id, j - 1, pos)

\* insertAt inserts the key and the pointer at the given positions
insertAt(w, id, keyPos, key, pointerPos, pointer) ==
  LET pointerNum(v) == IF isLeaf(v, id) THEN keyNumOf(v, id)
                       ELSE keyNumOf(v, id) + 1
      shiftKeys(v) == shiftKeysRight(v, id, keyNumOf(v, id), keyPos)
      shiftPointers(v) == shiftPointersRight(v, id, pointerNum(v), pointerPos)
      store(v) == setPtr(setKey(v, id, keyPos, key), id, pointerPos, pointer)
      count(v) == setKeyNum(v, id, keyNumOf(v, id) + 1)
  IN  count(store(shiftPointers(shiftKeys(Chk(w, IsNode(w, id))))))

\* shiftKeysLeft that starts one slot too far to the right
RECURSIVE shiftKeysLeftOffByOne(_, _, _)
shiftKeysLeftOffByOne(w, id, j) ==
  IF w.fault \/ j + 1 >= keyNumOf(w, id) - 1 THEN w
  ELSE shiftKeysLeftOffByOne(setKey(Chk(w, okKey(w, id, j + 2)), id, j + 1,
                                    keyAt(w, id, j + 2)), id, j + 1)

RECURSIVE shiftKeysLeft(_, _, _)
shiftKeysLeft(w, id, j) ==
  IF w.fault \/ j >= keyNumOf(w, id) - 1 THEN w
  ELSE shiftKeysLeft(setKey(Chk(w, okKey(w, id, j + 1)), id, j,
                            keyAt(w, id, j + 1)), id, j + 1)

RECURSIVE shiftPointersLeft(_, _, _, _)
shiftPointersLeft(w, id, j, pointerNum) ==
  IF w.fault \/ j >= pointerNum - 1 THEN w
  ELSE shiftPointersLeft(setPtr(Chk(w, okPtr(w, id, j + 1)), id, j,
                                ptrAt(w, id, j + 1)), id, j + 1, pointerNum)

\* deleteAt deletes the entry at the positions and shifts keys and pointers
deleteAt(w, id, keyPos, pointerPos) ==
  LET pointerNum(v) == IF isLeaf(v, id) THEN keyNumOf(v, id)
                       ELSE keyNumOf(v, id) + 1
      clearKey(v) == setKey(v, id, keyNumOf(v, id) - 1, << >>)
      shiftPointers(v) == shiftPointersLeft(v, id, pointerPos, pointerNum(v))
      clearPointer(v) == setPtr(v, id, pointerNum(v) - 1, NilP)
      count(v) == setKeyNum(v, id, keyNumOf(v, id) - 1)
  IN  count(clearPointer(shiftPointers(clearKey(
        shiftKeysLeft(Chk(w, IsNode(w, id)), id, keyPos)))))

\* append that stores the pointer at the key position also in an internal
\* node whose slot there is taken
appendAtKeyPosition(w, id, key, p) ==
  LET keyPos == keyNumOf(w, id)
      check(v) == IF isLeaf(v, id) THEN Chk(v, IsNode(v, id))
                  ELSE Chk(v, okPtr(v, id, keyPos))
      store(v) == setPtr(setKey(v, id, keyPos, key), id, keyPos, p)
      count(v) == setKeyNum(v, id, keyNumOf(v, id) + 1)
      adopt(v) == IF isLeaf(v, id) THEN v
                  ELSE setParent(Chk(v, okNode(p)), asNode(p), id)
  IN  adopt(count(store(check(w))))

\* append appends the key and the pointer to the node
append(w, id, key, p) ==
  LET keyPos == keyNumOf(w, id)
      pointerPos == IF ~isLeaf(w, id) /\ ptrAt(w, id, keyPos) # NilP
                    THEN keyPos + 1 ELSE keyPos
      check(v) == IF isLeaf(v, id) THEN Chk(v, IsNode(v, id))
                  ELSE Chk(v, okPtr(v, id, keyPos))
      store(v) == setPtr(setKey(v, id, keyPos, key), id, pointerPos, p)
      count(v) == setKeyNum(v, id, keyNumOf(v, id) + 1)
      adopt(v) == IF isLeaf(v, id) THEN v
                  ELSE setParent(Chk(v, okNode(p)), asNode(p), id)
  IN  adopt(count(store(check(w))))

RECURSIVE copyEntries(_, _, _, _)
copyEntries(w, id, from, i) ==
  IF w.fault \/ i >= keyNumOf(w, from) THEN w
  ELSE copyEntries(append(Chk(w, okKey(w, from, i) /\ okPtr(w, from, i)), id,
                          keyAt(w, from, i), ptrAt(w, from, i)),
                   id, from, i + 1)

\* copyFromRight that does not take over the next-leaf link of from
copyFromRightKeepsNext(w, id, from) ==
  LET lastChild(v) == setPtr(Chk(v, okPtr(v, from, keyNumOf(v, from))),
                             id, keyNumOf(v, id),
                             ptrAt(v, from, keyNumOf(v, from)))
      adopt(v) == setParentOfPtr(v, id, keyNumOf(v, id), id)
      link(v) == IF isLeaf(v, id) THEN v ELSE adopt(lastChild(v))
  IN  link(copyEntries(Chk(w, IsNode(w, id) /\ IsNode(w, from)), id, from, 0))

\* copyFromRight that copies from the second entry of from on
copyFromRightSkipsFirst(w, id, from) ==
  LET lastChild(v) == setPtr(Chk(v, okPtr(v, from, keyNumOf(v, from))),
                             id, keyNumOf(v, id),
                             ptrAt(v, from, keyNumOf(v, from)))
      adopt(v) == setParentOfPtr(v, id, keyNumOf(v, id), id)
      link(v) == IF isLeaf(v, id) THEN setNext(v, id, next(v, from))
                 ELSE adopt(lastChild(v))
  IN  link(copyEntries(Chk(w, IsNode(w, id) /\ IsNode(w, from)), id, from, 1))

\* copyFromRight copies the keys and the pointers of node from into node id
copyFromRight(w, id, from) ==
  LET lastChild(v) == setPtr(Chk(v, okPtr(v, from, keyNumOf(v, from))),
                             id, keyNumOf(v, id),
                             ptrAt(v, from, keyNumOf(v, from)))
      adopt(v) == setParentOfPtr(v, id, keyNumOf(v, id), id)
      link(v) == IF isLeaf(v, id) THEN setNext(v, id, next(v, from))
                 ELSE adopt(lastChild(v))
  IN  link(copyEntries(Chk(w, IsNode(w, id) /\ IsNode(w, from)), id, from, 0))

\* ---------------------------------------------------------------- lookup
\* results of a descent that does not end at a leaf
Panics == -1
Diverges == -2

\* findPosition that descends to the left of a separator equal to the key
RECURSIVE findPositionLeftOfEqual(_, _, _, _)
findPositionLeftOfEqual(w, current, key, position) ==
  IF position < keyNumOf(w, current)
  THEN IF compare(key, keyAt(w, current, position)) <= 0 THEN position
       ELSE findPositionLeftOfEqual(w, current, key, position + 1)
  ELSE position

RECURSIVE findPosition(_, _, _, _)
findPosition(w, current, key, position) ==
  IF position < keyNumOf(w, current)
  THEN IF less(key, keyAt(w, current, position)) THEN position
       ELSE findPosition(w, current, key, position + 1)
  ELSE position

RECURSIVE findLeafFrom(_, _, _, _)
findLeafFrom(w, current, key, fuel) ==
  IF ~IsNode(w, current) THEN Panics
  ELSE IF isLeaf(w, current) THEN current
  ELSE IF fuel = 0 THEN Diverges
  ELSE LET position == findPosition(w, current, key, 0)
           p == ptrAt(w, current, position)
       IN  IF ~okPtr(w, current, position) \/ ~okNode(p) THEN Panics
           ELSE findLeafFrom(w, asNode(p), key, fuel - 1)

\* findLeaf finds the leaf that might contain the key (Panics if the
\* descent dereferences a nil or value pointer, Diverges if it does not
\* reach a leaf within as many steps as there are nodes)
findLeaf(w, key) ==
  findLeafFrom(w, w.root, key, Cardinality(DOMAIN w.nodes))

\* Get without the check for the empty tree
GetWithoutRootCheck(w, key) ==
  LET leaf == findLeaf(w, key)
      i == keyPosition(w, leaf, key)
  IN  IF leaf = Diverges THEN Panicked([w EXCEPT !.diverged = TRUE])
      ELSE IF leaf < 0 THEN Panicked(w)
      ELSE IF i = -1 THEN Ret(w, << >>, FALSE)
      ELSE IF ~okValue(ptrAt(w, leaf, i)) THEN Panicked(w)
      ELSE Ret(w, asValue(ptrAt(w, leaf, i)), TRUE)

\* Get that remembers the leaf it searched as the leftmost leaf
GetMovesLeftmost(w, key) ==
  IF w.root = Nil THEN Ret(w, << >>, FALSE)
  ELSE LET leaf == findLeaf(w, key)
           i == keyPosition(w, leaf, key)
           found(x) == IF i = -1 THEN Ret(x, << >>, FALSE)
                       ELSE Ret(x, asValue(ptrAt(w, leaf, i)), TRUE)
       IN  IF leaf < 0 THEN Panicked(w)
           ELSE found([w EXCEPT !.leftmost = leaf])

\* Get returns the value of the key and whether the key was found
Get(w, key) ==
  IF w.root = Nil THEN Ret(w, << >>, FALSE)
  ELSE LET leaf == findLeaf(w, key)
           i == keyPosition(w, leaf, key)
       IN  IF leaf = Diverges THEN Panicked([w EXCEPT !.diverged = TRUE])
           ELSE IF leaf < 0 THEN Panicked(w)
           ELSE IF i = -1 THEN Ret(w, << >>, FALSE)
           ELSE IF ~okValue(ptrAt(w, leaf, i)) THEN Panicked(w)
           ELSE Ret(w, asValue(ptrAt(w, leaf, i)), TRUE)

\* ------------------------------------------------------------- insertion
\* initializeRoot that does not set leftmost
initializeRootWithoutLeftmost(w, key, value) ==
  LET id == Alloc(w)
      nd == [newNode(TRUE, w.order) EXCEPT
               !.keys[1] = copyBytes(key),
               !.pointers[1] = ValP(value),
               !.keyNum = 1]
  IN  [w EXCEPT !.nodes = (id :> nd) @@ w.nodes,
                !.root = id, !.size = w.size + 1]

\* initializeRoot that sets leftmost only if it is not set yet
initializeRootKeepsLeftmost(w, key, value) ==
  LET id == Alloc(w)
      nd == [newNode(TRUE, w.order) EXCEPT
               !.keys[1] = copyBytes(key),
               !.pointers[1] = ValP(value),
               !.keyNum = 1]
  IN  [w EXCEPT !.nodes = (id :> nd) @@ w.nodes,
                !.root = id,
                !.leftmost = IF w.leftmost = Nil THEN id ELSE w.leftmost,
                !.size = w.size + 1]

\* initializeRoot initializes the root of the empty tree
initializeRoot(w, key, value) ==
  LET id == Alloc(w)
      nd == [newNode(TRUE, w.order) EXCEPT
               !.keys[1] = copyBytes(key),
               !.pointers[1] = ValP(value),
               !.keyNum = 1]
  IN  [w EXCEPT !.nodes = (id :> nd) @@ w.nodes,
                !.root = id, !.leftmost = id, !.size = w.size + 1]

\* putIntoNewRoot that takes the first child of an internal r as the right
\* child of the new root
putIntoNewRootOverGrandchild(w, key, l, r) ==
  LET id == Alloc(w)
      rc == IF isLeaf(w, r) THEN r ELSE asNode(ptrAt(w, r, 0))
      nd == [newNode(FALSE, w.order) EXCEPT
               !.keys[1] = key,
               !.pointers[1] = NodeP(l),
               !.pointers[2] = NodeP(rc),
               !.keyNum = 1]
      adopt(v) == setParent(setParent(v, l, id), rc, id)
      install(v) == IF v.fault THEN v
                    ELSE Mark([v EXCEPT !.root = id], "newRoot")
  IN  install(adopt([w EXCEPT !.nodes = (id :> nd) @@ w.nodes]))

\* putIntoNewRoot creates the new root over l and r
putIntoNewRoot(w, key, l, r) ==
  LET id == Alloc(w)
      nd == [newNode(FALSE, w.order) EXCEPT
               !.keys[1] = key,
               !.pointers[1] = NodeP(l),
               !.pointers[2] = NodeP(r),
               !.keyNum = 1]
      adopt(v) == setParent(setParent(v, l, id), r, id)
      install(v) == IF v.fault THEN v
                    ELSE Mark([v EXCEPT !.root = id], "newRoot")
  IN  install(adopt([w EXCEPT !.nodes = (id :> nd) @@ w.nodes]))

\* the loop shared by putIntoParent and putIntoParentAndSplit: shift the
\* keys and the pointers from position j down to insertPos
RECURSIVE shiftBoth(_, _, _, _)
shiftBoth(w, id, j, insertPos) ==
  IF w.fault \/ j <= insertPos THEN w
  ELSE LET moveKey(v) == setKey(Chk(v, okKey(v, id, j - 1)), id, j,
                                 keyAt(v, id, j - 1))
           movePointer(v) == setPtr(v, id, j, ptrAt(v, id, j - 1))
       IN  shiftBoth(movePointer(moveKey(w)), id, j - 1, insertPos)

\* insert key k with children l and r at insertPos of an internal node
insertIntoInternal(w, id, insertPos, k, l, r) ==
  LET kn == keyNumOf(w, id)
      moveLast(v) == setPtr(Chk(v, okPtr(v, id, kn)), id, kn + 1,
                            ptrAt(v, id, kn))
      store(v) == setPtr(setPtr(setKey(v, id, insertPos, k),
                                id, insertPos, NodeP(l)),
                         id, insertPos + 1, NodeP(r))
      count(v) == setKeyNum(v, id, keyNumOf(v, id) + 1)
      adopt(v) == setParent(setParent(v, l, id), r, id)
  IN  adopt(count(store(shiftBoth(moveLast(w), id, kn, insertPos))))

\* putIntoParent puts k with children l and r into a parent that has room
putIntoParent(w, parent, k, l, r) ==
  insertIntoInternal(w, parent, findPosition(w, parent, k, 0), k, l, r)

\* copy(dst, src): the first min(len(dst), len(src)) elements
copySeq(dst, src) ==
  [i \in 1..Len(dst) |-> IF i <= Len(src) THEN src[i] ELSE dst[i]]

\* s[from:to]
slice(s, from, to) == SubSeq(s, from + 1, to)

RECURSIVE clearLeafFrom(_, _, _, _)
clearLeafFrom(w, id, i, copyFrom) ==
  IF w.fault \/ i < copyFrom THEN w
  ELSE clearLeafFrom(setPtr(setKey(w, id, i, << >>), id, i, NilP),
                     id, i - 1, copyFrom)

\* putIntoLeafAndSplit that leaves the next reference of the right leaf
\* unset
putIntoLeafAndSplitDropsNext(w, n, insertPos, k, v) ==
  LET right == Alloc(w)
      old == w.nodes[n]
      middlePos == ceil(Len(old.keys), 2)
      copyFrom == IF insertPos < middlePos THEN middlePos - 1 ELSE middlePos
      fresh == newNode(TRUE, w.order)
      rnode == [fresh EXCEPT
                  !.keys = copySeq(fresh.keys,
                                   slice(old.keys, copyFrom, Len(old.keys))),
                  !.pointers = copySeq(fresh.pointers,
                                 slice(old.pointers, copyFrom,
                                       Len(old.pointers) - 1))]
      insertNode == IF insertPos >= middlePos THEN right ELSE n
      pos == IF insertPos >= middlePos THEN insertPos - middlePos ELSE insertPos
      countRight(x) == setKeyNum(x, right, lenKeys(x, right) - copyFrom)
      cutLeft(x) == setKeyNum(setParent(x, n, Nil), n, copyFrom)
      clearLeft(x) == clearLeafFrom(x, n, lenKeys(x, n) - 1, copyFrom)
      linkLeft(x) == setNext(x, n, NodeP(right))
      insert(x) == insertAt(x, insertNode, pos, k, pos, ValP(v))
  IN  [w |-> Mark(insert(linkLeft(clearLeft(cutLeft(countRight(
                    [w EXCEPT !.nodes = (right :> rnode) @@ w.nodes]))))),
                  "leafSplit"),
       left |-> n, right |-> right]

\* putIntoLeafAndSplit puts the new key and splits the leaf; the given
\* node becomes the left node.  Yields the world and the two nodes.
putIntoLeafAndSplit(w, n, insertPos, k, v) ==
  LET right == Alloc(w)
      old == w.nodes[n]
      middlePos == ceil(Len(old.keys), 2)
      copyFrom == IF insertPos < middlePos THEN middlePos - 1 ELSE middlePos
      fresh == newNode(TRUE, w.order)
      rnode == [fresh EXCEPT
                  !.keys = copySeq(fresh.keys,
                                   slice(old.keys, copyFrom, Len(old.keys))),
                  !.pointers = copySeq(fresh.pointers,
                                 slice(old.pointers, copyFrom,
                                       Len(old.pointers) - 1))]
      insertNode == IF insertPos >= middlePos THEN right ELSE n
      pos == IF insertPos >= middlePos THEN insertPos - middlePos ELSE insertPos
      linkRight(x) == setNext(x, right, next(x, n))
      countRight(x) == setKeyNum(x, right, lenKeys(x, right) - copyFrom)
      cutLeft(x) == setKeyNum(setParent(x, n, Nil), n, copyFrom)
      clearLeft(x) == clearLeafFrom(x, n, lenKeys(x, n) - 1, copyFrom)
      linkLeft(x) == setNext(x, n, NodeP(right))
      insert(x) == insertAt(x, insertNode, pos, k, pos, ValP(v))
  IN  [w |-> Mark(insert(linkLeft(clearLeft(cutLeft(countRight(linkRight(
                    [w EXCEPT !.nodes = (right :> rnode) @@ w.nodes])))))),
                  "leafSplit"),
       left |-> n, right |-> right]

RECURSIVE clearInternalFrom(_, _, _, _)
clearInternalFrom(w, id, i, copyFrom) ==
  IF w.fault \/ i < copyFrom THEN w
  ELSE clearInternalFrom(setPtr(setKey(w, id, i, << >>), id, i + 1, NilP),
                         id, i - 1, copyFrom)

RECURSIVE dropFirstFrom(_, _, _)
dropFirstFrom(w, id, i) ==
  IF w.fault \/ i >= keyNumOf(w, id) THEN w
  ELSE LET moveKey(v) == setKey(Chk(v, okKey(v, id, i)), id, i - 1,
                                 keyAt(v, id, i))
           movePointer(v) == setPtr(v, id, i - 1, ptrAt(v, id, i))
       IN  dropFirstFrom(movePointer(moveKey(w)), id, i + 1)

\* the parent fix-up left out: the children keep the parent they had
adoptChildrenKeepsParent(w, id, i) == w

\* for _, p := range n.pointers { if p != nil { p.asNode().parent = n } }
RECURSIVE adoptChildren(_, _, _)
adoptChildren(w, id, i) ==
  IF w.fault \/ i >= lenPointers(w, id) THEN w
  ELSE IF ptrAt(w, id, i) = NilP THEN adoptChildren(w, id, i + 1)
  ELSE adoptChildren(setParentOfPtr(w, id, i, id), id, i + 1)

\* putIntoParentAndSplit that promotes the key that becomes the first key
\* of the right half instead of the key it drops from it
putIntoParentAndSplitPromotesSecond(w, parent, k, l, r) ==
  LET insertPos == findPosition(w, parent, k, 0)
      right == Alloc(w)
      old == w.nodes[parent]
      middlePos == ceil(Len(old.keys), 2)
      copyFrom == IF insertPos < middlePos THEN middlePos - 1 ELSE middlePos
      fresh == newNode(FALSE, w.order)
      rnode == [fresh EXCEPT
                  !.keys = copySeq(fresh.keys,
                                   slice(old.keys, copyFrom, Len(old.keys))),
                  !.pointers = copySeq(fresh.pointers,
                                 slice(old.pointers, copyFrom,
                                       Len(old.pointers))),
                  !.keyNum = Len(fresh.keys) - copyFrom]
      left == parent
      insertNode == IF insertPos >= middlePos THEN right ELSE left
      pos == IF insertPos >= middlePos THEN insertPos - middlePos ELSE insertPos
      cutLeft(x) == setKeyNum(x, left, copyFrom)
      clearLeft(x) == clearInternalFrom(x, left, lenKeys(x, left) - 1, copyFrom)
      insert(x) == insertIntoInternal(x, insertNode, pos, k, l, r)
      \* the last pointer of right moves down and the freed slots are cleared
      closeGap(x) ==
        LET rk == keyNumOf(x, right)
        IN  setKeyNum(
              setKey(
                setPtr(
                  setPtr(Chk(x, okPtr(x, right, rk)), right, rk - 1,
                         ptrAt(x, right, rk)),
                  right, rk, NilP),
                right, rk - 1, << >>),
              right, rk - 1)
      adopt(x) == adoptChildren(adoptChildren(x, left, 0), right, 0)
      promote(x) ==
        [w |-> Mark(adopt(closeGap(dropFirstFrom(x, right, 1))),
                    "internalSplit"),
         key |-> keyAt(x, right, 1), left |-> left, right |-> right]
  IN  promote(insert(clearLeft(cutLeft(
        [w EXCEPT !.nodes = (right :> rnode) @@ w.nodes]))))

\* putIntoParentAndSplit puts the key into the full parent and splits it;
\* yields the world, the promoted key and the two halves
putIntoParentAndSplit(w, parent, k, l, r) ==
  LET insertPos == findPosition(w, parent, k, 0)
      right == Alloc(w)
      old == w.nodes[parent]
      middlePos == ceil(Len(old.keys), 2)
      copyFrom == IF insertPos < middlePos THEN middlePos - 1 ELSE middlePos
      fresh == newNode(FALSE, w.order)
      rnode == [fresh EXCEPT
                  !.keys = copySeq(fresh.keys,
                                   slice(old.keys, copyFrom, Len(old.keys))),
                  !.pointers = copySeq(fresh.pointers,
                                 slice(old.pointers, copyFrom,
                                       Len(old.pointers))),
                  !.keyNum = Len(fresh.keys) - copyFrom]
      left == parent
      insertNode == IF insertPos >= middlePos THEN right ELSE left
      pos == IF insertPos >= middlePos THEN insertPos - middlePos ELSE insertPos
      cutLeft(x) == setKeyNum(x, left, copyFrom)
      clearLeft(x) == clearInternalFrom(x, left, lenKeys(x, left) - 1, copyFrom)
      insert(x) == insertIntoInternal(x, insertNode, pos, k, l, r)
      \* the last pointer of right moves down and the freed slots are cleared
      closeGap(x) ==
        LET rk == keyNumOf(x, right)
        IN  setKeyNum(
              setKey(
                setPtr(
                  setPtr(Chk(x, okPtr(x, right, rk)), right, rk - 1,
                         ptrAt(x, right, rk)),
                  right, rk, NilP),
                right, rk - 1, << >>),
              right, rk - 1)
      adopt(x) == adoptChildren(adoptChildren(x, left, 0), right, 0)
      \* x: the world with the key inserted; its right.keys[0] is promoted
      promote(x) ==
        [w |-> Mark(adopt(closeGap(dropFirstFrom(x, right, 1))),
                    "internalSplit"),
         key |-> keyAt(x, right, 0), left |-> left, right |-> right]
  IN  promote(insert(clearLeft(cutLeft(
        [w EXCEPT !.nodes = (right :> rnode) @@ w.nodes]))))

\* the propagation loop that makes a new root over the two halves even
\* when the parent has room for them
propagateNewRootOverAnyParent(w, parent, insertKey, left, right, fuel) ==
  IF w.fault \/ left = Nil \/ right = Nil THEN w
  ELSE IF fuel = 0 THEN [w EXCEPT !.diverged = TRUE]
  ELSE IF parent = Nil THEN putIntoNewRoot(w, insertKey, left, right)
  ELSE IF ~IsNode(w, parent) THEN Chk(w, FALSE)
  ELSE IF keyNumOf(w, parent) < lenKeys(w, parent)
       THEN putIntoNewRoot(w, insertKey, left, right)
  ELSE LET up(s) == putIntoNewRoot(s.w, s.key, s.left, s.right)
       IN  up(putIntoParentAndSplit(w, parent, insertKey, left, right))

\* the propagation loop of putIntoLeaf: carry (insertKey, left, right) up
\* until a parent has room or a new root is made
RECURSIVE propagate(_, _, _, _, _, _)
propagate(w, parent, insertKey, left, right, fuel) ==
  IF w.fault \/ left = Nil \/ right = Nil THEN w
  ELSE IF fuel = 0 THEN [w EXCEPT !.diverged = TRUE]
  ELSE IF parent = Nil THEN putIntoNewRoot(w, insertKey, left, right)
  ELSE IF ~IsNode(w, parent) THEN Chk(w, FALSE)
  ELSE IF keyNumOf(w, parent) < lenKeys(w, parent)
       THEN putIntoParent(w, parent, insertKey, left, right)
  ELSE LET up(s) == propagate(s.w, parentOf(s.w, parent), s.key, s.left,
                              s.right, fuel - 1)
       IN  up(putIntoParentAndSplit(w, parent, insertKey, left, right))

\* where putIntoLeaf's scan of the leaf stops: at a key equal to k
\* (match), at the first greater key, or at keyNum
RECURSIVE leafInsertPosFrom(_, _, _, _)
leafInsertPosFrom(w, n, k, insertPos) ==
  IF insertPos < keyNumOf(w, n)
  THEN LET cmp == compare(k, keyAt(w, n, insertPos))
       IN  IF cmp = 0 THEN [pos |-> insertPos, match |-> TRUE]
           ELSE IF cmp < 0 THEN [pos |-> insertPos, match |-> FALSE]
           ELSE leafInsertPosFrom(w, n, k, insertPos + 1)
  ELSE [pos |-> insertPos, match |-> FALSE]

\* overrideValue that returns the value it has just stored
overrideValueReturnsNew(w, n, i, newValue) ==
  IF ~okValue(ptrAt(w, n, i)) THEN Panicked(w)
  ELSE Ret(setPtr(w, n, i, ValP(newValue)), newValue, TRUE)

\* overrideValue overrides the value of the pointer, returns the old one
\* overrideValue after which the entry is counted once more
overrideValueCountsEntry(w, n, i, newValue) ==
  IF ~okValue(ptrAt(w, n, i)) THEN Panicked(w)
  ELSE Ret([setPtr(w, n, i, ValP(newValue)) EXCEPT !.size = @ + 1],
           asValue(ptrAt(w, n, i)), TRUE)

overrideValue(w, n, i, newValue) ==
  IF ~okValue(ptrAt(w, n, i)) THEN Panicked(w)
  ELSE Ret(setPtr(w, n, i, ValP(newValue)), asValue(ptrAt(w, n, i)), TRUE)

\* putIntoLeaf puts the key and the value into the leaf
putIntoLeaf(w, n, k, v) ==
  LET ip == leafInsertPosFrom(w, n, k, 0)
      insertPos == ip.pos
      store(x) == setPtr(setKey(x, n, insertPos, k), n, insertPos, ValP(v))
      count(x) == setKeyNum(x, n, keyNumOf(x, n) + 1)
      \* s: the split leaf; the first key of its right half goes up
      up(s) == propagate(s.w, parentOf(w, n), keyAt(s.w, s.right, 0), s.left,
                         s.right, Cardinality(DOMAIN s.w.nodes))
      grown(x) == IF x.fault \/ x.diverged THEN Panicked(x)
                  ELSE Ret([x EXCEPT !.size = x.size + 1], << >>, FALSE)
  IN  IF ip.match THEN overrideValue(w, n, insertPos, v)
      ELSE IF keyNumOf(w, n) < lenKeys(w, n)
      THEN grown(count(store(shiftBoth(w, n, keyNumOf(w, n), insertPos))))
      ELSE grown(up(putIntoLeafAndSplit(w, n, insertPos, k, v)))

\* Put inserts the value; if the key exists, overrides it and returns the
\* previous value and true
Put(w, key, value) ==
  IF w.root = Nil THEN Ret(initializeRoot(w, key, value), << >>, FALSE)
  ELSE LET leaf == findLeaf(w, key)
       IN  IF leaf = Diverges THEN Panicked([w EXCEPT !.diverged = TRUE])
           ELSE IF leaf < 0 THEN Panicked(w)
           ELSE putIntoLeaf(w, leaf, key, value)

\* -------------------------------------------------------------- deletion
RECURSIVE findLeftmostKeyFrom(_, _, _)
findLeftmostKeyFrom(w, current, fuel) ==
  IF ~IsNode(w, current) THEN [ok |-> FALSE, key |-> << >>]
  ELSE IF isLeaf(w, current) THEN [ok |-> TRUE, key |-> keyAt(w, current, 0)]
  ELSE IF fuel = 0 \/ ~okNode(ptrAt(w, current, 0))
       THEN [ok |-> FALSE, key |-> << >>]
  ELSE findLeftmostKeyFrom(w, asNode(ptrAt(w, current, 0)), fuel - 1)

\* findLeftmostKey returns the leftmost key of the subtree of n
findLeftmostKey(w, n) == findLeftmostKeyFrom(w, n, Cardinality(DOMAIN w.nodes))

\* removeFromIndex searches the key in the internal nodes on the path of
\* the key and replaces it by the leftmost key of the right subtree.  The
\* scan does not advance after a replacement: if the replacement compares
\* equal to the key again the scan repeats the same step forever.
RECURSIVE removeFromIndexAt(_, _, _, _, _)
removeFromIndexAt(w, current, key, position, fuel) ==
  IF w.fault \/ w.diverged THEN w
  ELSE IF ~IsNode(w, current) THEN Chk(w, FALSE)
  ELSE IF isLeaf(w, current) THEN w
  ELSE IF fuel = 0 THEN [w EXCEPT !.diverged = TRUE]
  ELSE IF position < keyNumOf(w, current)
            /\ compare(key, keyAt(w, current, position)) > 0
       THEN removeFromIndexAt(w, current, key, position + 1, fuel)
  ELSE IF position < keyNumOf(w, current)
            /\ compare(key, keyAt(w, current, position)) = 0
       THEN LET p == ptrAt(w, current, position + 1)
                lk == findLeftmostKey(w, asNode(p))
            IN  IF ~okPtr(w, current, position + 1) \/ ~okNode(p) \/ ~lk.ok
                THEN Chk(w, FALSE)
                ELSE IF compare(key, lk.key) = 0
                THEN [w EXCEPT !.diverged = TRUE]
                ELSE removeFromIndexAt(
                       Mark(setKey(w, current, position, lk.key), "reindex"),
                       current, key, position, fuel)
  ELSE LET p == ptrAt(w, current, position)
       IN  IF ~okPtr(w, current, position) \/ ~okNode(p) THEN Chk(w, FALSE)
           ELSE removeFromIndexAt(w, asNode(p), key, 0, fuel - 1)

\* removeFromIndex that leaves the index as it is
removeFromIndexKeepsKey(w, key) == w

removeFromIndex(w, key) ==
  removeFromIndexAt(w, w.root, key, 0, Cardinality(DOMAIN w.nodes))

\* rebalanceParentNode rebalances the tree from the internal node n
RECURSIVE rebalanceParentNode(_, _, _)
\* rebalanceParentNode whose merge takes the first key of the right node
\* instead of the separator of the parent
rebalanceParentNodeKeepsSeparator(w, n, fuel) ==
  IF w.fault THEN w
  ELSE IF ~IsNode(w, n) THEN Chk(w, FALSE)
  ELSE IF fuel = 0 THEN [w EXCEPT !.diverged = TRUE]
  ELSE IF parentOf(w, n) = Nil
       THEN IF keyNumOf(w, n) = 0
            THEN IF ~okNode(ptrAt(w, n, 0)) THEN Chk(w, FALSE)
                 ELSE Mark(setParent([w EXCEPT !.root = asNode(ptrAt(w, n, 0))],
                                     asNode(ptrAt(w, n, 0)), Nil),
                           "rootCollapse")
            ELSE w
  ELSE IF keyNumOf(w, n) >= w.minKeyNum THEN w
  ELSE
    LET under(parent, pointerPositionInParent) ==
      LET keyPositionInParent == IF pointerPositionInParent - 1 < 0 THEN 0
                                 ELSE pointerPositionInParent - 1
          leftSiblingPosition == pointerPositionInParent - 1
          hasLeft == leftSiblingPosition >= 0
          leftP == ptrAt(w, parent, leftSiblingPosition)
          leftSibling == IF hasLeft THEN asNode(leftP) ELSE Nil
          rightSiblingPosition == pointerPositionInParent + 1
          hasRight == rightSiblingPosition < keyNumOf(w, parent) + 1
          rightP == ptrAt(w, parent, rightSiblingPosition)
          rightSibling == IF hasRight THEN asNode(rightP) ELSE Nil
          lk == keyNumOf(w, leftSibling)
          splitKey == keyAt(w, parent, keyPositionInParent)
          checked == Chk(w, okKey(w, parent, keyPositionInParent))
      IN
      IF ~IsNode(w, parent) \/ pointerPositionInParent = -2 THEN Chk(w, FALSE)
      ELSE IF hasLeft /\ ~(okPtr(w, parent, leftSiblingPosition)
                           /\ okNode(leftP) /\ IsNode(w, leftSibling))
           THEN Chk(w, FALSE)
      ELSE IF hasLeft /\ lk > w.minKeyNum
           THEN \* borrow from the left sibling
             LET adopt(x) == setParentOfPtr(x, leftSibling, lk, n)
                 take(x) == insertAt(x, n, 0, splitKey, 0,
                                     ptrAt(x, leftSibling, lk))
                 raise(x) == setKey(Chk(x, okKey(x, leftSibling, lk - 1)),
                                    parent, keyPositionInParent,
                                    keyAt(x, leftSibling, lk - 1))
             IN  Mark(deleteAt(raise(take(adopt(checked))), leftSibling,
                               lk - 1, lk),
                      "internalBorrowLeft")
      ELSE IF hasRight /\ ~(okPtr(w, parent, rightSiblingPosition)
                            /\ okNode(rightP) /\ IsNode(w, rightSibling))
           THEN Chk(w, FALSE)
      ELSE IF hasRight /\ keyNumOf(w, rightSibling) > w.minKeyNum
           THEN \* borrow from the right sibling
             LET splitKeyPosition == rightSiblingPosition - 1
                 take(x) == append(x, n, keyAt(w, parent, splitKeyPosition),
                                   ptrAt(w, rightSibling, 0))
                 raise(x) == setKey(x, parent, splitKeyPosition,
                                    keyAt(x, rightSibling, 0))
             IN  Mark(deleteAt(raise(take(
                        Chk(w, okKey(w, parent, splitKeyPosition)
                               /\ ptrAt(w, rightSibling, 0) # NilP))),
                        rightSibling, 0, 0),
                      "internalBorrowRight")
      ELSE
        LET pullLeft(x) == setKeyNum(setKey(x, leftSibling, lk,
                                            keyAt(x, n, 0)),
                                     leftSibling, lk + 1)
            pull(x) == setKeyNum(setKey(x, n, keyNumOf(x, n),
                                        keyAt(x, rightSibling, 0)),
                                 n, keyNumOf(x, n) + 1)
        IN  rebalanceParentNode(
              IF leftSibling # Nil
              THEN Mark(deleteAt(copyFromRight(pullLeft(checked),
                                               leftSibling, n),
                                 parent, keyPositionInParent,
                                 pointerPositionInParent),
                        "internalMergeLeft")
              ELSE IF rightSibling # Nil
              THEN Mark(deleteAt(copyFromRight(pull(checked), n, rightSibling),
                                 parent, keyPositionInParent,
                                 rightSiblingPosition),
                        "internalMergeRight")
              ELSE w,
              parent, fuel - 1)
    IN  under(parentOf(w, n), pointerPositionOf(w, parentOf(w, n), n))

\* rebalanceParentNode that makes the sole child of the empty root the new
\* root and leaves the parent reference of that child as it is
rebalanceParentNodeKeepsRootParent(w, n, fuel) ==
  IF w.fault THEN w
  ELSE IF ~IsNode(w, n) THEN Chk(w, FALSE)
  ELSE IF fuel = 0 THEN [w EXCEPT !.diverged = TRUE]
  ELSE IF parentOf(w, n) = Nil
       THEN IF keyNumOf(w, n) = 0
            THEN IF ~okNode(ptrAt(w, n, 0)) THEN Chk(w, FALSE)
                 ELSE Mark([w EXCEPT !.root = asNode(ptrAt(w, n, 0))],
                           "rootCollapse")
            ELSE w
  ELSE IF keyNumOf(w, n) >= w.minKeyNum THEN w
  ELSE
    LET under(parent, pointerPositionInParent) ==
      LET keyPositionInParent == IF pointerPositionInParent - 1 < 0 THEN 0
                                 ELSE pointerPositionInParent - 1
          leftSiblingPosition == pointerPositionInParent - 1
          hasLeft == leftSiblingPosition >= 0
          leftP == ptrAt(w, parent, leftSiblingPosition)
          leftSibling == IF hasLeft THEN asNode(leftP) ELSE Nil
          rightSiblingPosition == pointerPositionInParent + 1
          hasRight == rightSiblingPosition < keyNumOf(w, parent) + 1
          rightP == ptrAt(w, parent, rightSiblingPosition)
          rightSibling == IF hasRight THEN asNode(rightP) ELSE Nil
          lk == keyNumOf(w, leftSibling)
          splitKey == keyAt(w, parent, keyPositionInParent)
          checked == Chk(w, okKey(w, parent, keyPositionInParent))
      IN
      IF ~IsNode(w, parent) \/ pointerPositionInParent = -2 THEN Chk(w, FALSE)
      ELSE IF hasLeft /\ ~(okPtr(w, parent, leftSiblingPosition)
                           /\ okNode(leftP) /\ IsNode(w, leftSibling))
           THEN Chk(w, FALSE)
      ELSE IF hasLeft /\ lk > w.minKeyNum
           THEN \* borrow from the left sibling
             LET adopt(x) == setParentOfPtr(x, leftSibling, lk, n)
                 take(x) == insertAt(x, n, 0, splitKey, 0,
                                     ptrAt(x, leftSibling, lk))
                 raise(x) == setKey(Chk(x, okKey(x, leftSibling, lk - 1)),
                                    parent, keyPositionInParent,
                                    keyAt(x, leftSibling, lk - 1))
             IN  Mark(deleteAt(raise(take(adopt(checked))), leftSibling,
                               lk - 1, lk),
                      "internalBorrowLeft")
      ELSE IF hasRight /\ ~(okPtr(w, parent, rightSiblingPosition)
                            /\ okNode(rightP) /\ IsNode(w, rightSibling))
           THEN Chk(w, FALSE)
      ELSE IF hasRight /\ keyNumOf(w, rightSibling) > w.minKeyNum
           THEN \* borrow from the right sibling
             LET splitKeyPosition == rightSiblingPosition - 1
                 take(x) == append(x, n, keyAt(w, parent, splitKeyPosition),
                                   ptrAt(w, rightSibling, 0))
                 raise(x) == setKey(x, parent, splitKeyPosition,
                                    keyAt(x, rightSibling, 0))
             IN  Mark(deleteAt(raise(take(
                        Chk(w, okKey(w, parent, splitKeyPosition)
                               /\ ptrAt(w, rightSibling, 0) # NilP))),
                        rightSibling, 0, 0),
                      "internalBorrowRight")
      ELSE
        LET pullLeft(x) == setKeyNum(setKey(x, leftSibling, lk, splitKey),
                                     leftSibling, lk + 1)
            pull(x) == setKeyNum(setKey(x, n, keyNumOf(x, n), splitKey),
                                 n, keyNumOf(x, n) + 1)
        IN  rebalanceParentNode(
              IF leftSibling # Nil
              THEN Mark(deleteAt(copyFromRight(pullLeft(checked),
                                               leftSibling, n),
                                 parent, keyPositionInParent,
                                 pointerPositionInParent),
                        "internalMergeLeft")
              ELSE IF rightSibling # Nil
              THEN Mark(deleteAt(copyFromRight(pull(checked), n, rightSibling),
                                 parent, keyPositionInParent,
                                 rightSiblingPosition),
                        "internalMergeRight")
              ELSE w,
              parent, fuel - 1)
    IN  under(parentOf(w, n), pointerPositionOf(w, parentOf(w, n), n))

rebalanceParentNode(w, n, fuel) ==
  IF w.fault THEN w
  ELSE IF ~IsNode(w, n) THEN Chk(w, FALSE)
  ELSE IF fuel = 0 THEN [w EXCEPT !.diverged = TRUE]
  ELSE IF parentOf(w, n) = Nil
       THEN IF keyNumOf(w, n) = 0
            THEN IF ~okNode(ptrAt(w, n, 0)) THEN Chk(w, FALSE)
                 ELSE Mark(setParent([w EXCEPT !.root = asNode(ptrAt(w, n, 0))],
                                     asNode(ptrAt(w, n, 0)), Nil),
                           "rootCollapse")
            ELSE w
  ELSE IF keyNumOf(w, n) >= w.minKeyNum THEN w
  ELSE
    LET under(parent, pointerPositionInParent) ==
      LET keyPositionInParent == IF pointerPositionInParent - 1 < 0 THEN 0
                                 ELSE pointerPositionInParent - 1
          leftSiblingPosition == pointerPositionInParent - 1
          hasLeft == leftSiblingPosition >= 0
          leftP == ptrAt(w, parent, leftSiblingPosition)
          leftSibling == IF hasLeft THEN asNode(leftP) ELSE Nil
          rightSiblingPosition == pointerPositionInParent + 1
          hasRight == rightSiblingPosition < keyNumOf(w, parent) + 1
          rightP == ptrAt(w, parent, rightSiblingPosition)
          rightSibling == IF hasRight THEN asNode(rightP) ELSE Nil
          lk == keyNumOf(w, leftSibling)
          splitKey == keyAt(w, parent, keyPositionInParent)
          checked == Chk(w, okKey(w, parent, keyPositionInParent))
      IN
      IF ~IsNode(w, parent) \/ pointerPositionInParent = -2 THEN Chk(w, FALSE)
      ELSE IF hasLeft /\ ~(okPtr(w, parent, leftSiblingPosition)
                           /\ okNode(leftP) /\ IsNode(w, leftSibling))
           THEN Chk(w, FALSE)
      ELSE IF hasLeft /\ lk > w.minKeyNum
           THEN \* borrow from the left sibling
             LET adopt(x) == setParentOfPtr(x, leftSibling, lk, n)
                 take(x) == insertAt(x, n, 0, splitKey, 0,
                                     ptrAt(x, leftSibling, lk))
                 raise(x) == setKey(Chk(x, okKey(x, leftSibling, lk - 1)),
                                    parent, keyPositionInParent,
                                    keyAt(x, leftSibling, lk - 1))
             IN  Mark(deleteAt(raise(take(adopt(checked))), leftSibling,
                               lk - 1, lk),
                      "internalBorrowLeft")
      ELSE IF hasRight /\ ~(okPtr(w, parent, rightSiblingPosition)
                            /\ okNode(rightP) /\ IsNode(w, rightSibling))
           THEN Chk(w, FALSE)
      ELSE IF hasRight /\ keyNumOf(w, rightSibling) > w.minKeyNum
           THEN \* borrow from the right sibling
             LET splitKeyPosition == rightSiblingPosition - 1
                 take(x) == append(x, n, keyAt(w, parent, splitKeyPosition),
                                   ptrAt(w, rightSibling, 0))
                 raise(x) == setKey(x, parent, splitKeyPosition,
                                    keyAt(x, rightSibling, 0))
             IN  Mark(deleteAt(raise(take(
                        Chk(w, okKey(w, parent, splitKeyPosition)
                               /\ ptrAt(w, rightSibling, 0) # NilP))),
                        rightSibling, 0, 0),
                      "internalBorrowRight")
      ELSE
        LET pullLeft(x) == setKeyNum(setKey(x, leftSibling, lk, splitKey),
                                     leftSibling, lk + 1)
            pull(x) == setKeyNum(setKey(x, n, keyNumOf(x, n), splitKey),
                                 n, keyNumOf(x, n) + 1)
        IN  rebalanceParentNode(
              IF leftSibling # Nil
              THEN Mark(deleteAt(copyFromRight(pullLeft(checked),
                                               leftSibling, n),
                                 parent, keyPositionInParent,
                                 pointerPositionInParent),
                        "internalMergeLeft")
              ELSE IF rightSibling # Nil
              THEN Mark(deleteAt(copyFromRight(pull(checked), n, rightSibling),
                                 parent, keyPositionInParent,
                                 rightSiblingPosition),
                        "internalMergeRight")
              ELSE w,
              parent, fuel - 1)
    IN  under(parentOf(w, n), pointerPositionOf(w, parentOf(w, n), n))

\* rebalanceFromLeafNode that borrows from the right sibling when both
\* siblings can lend
rebalanceFromLeafNodeRightFirst(w, n) ==
  LET under(parent, pointerPositionInParent) ==
    LET keyPositionInParent == IF pointerPositionInParent - 1 < 0 THEN 0
                               ELSE pointerPositionInParent - 1
        leftSiblingPosition == pointerPositionInParent - 1
        hasLeft == leftSiblingPosition >= 0
        leftP == ptrAt(w, parent, leftSiblingPosition)
        leftSibling == IF hasLeft THEN asNode(leftP) ELSE Nil
        rightSiblingPosition == pointerPositionInParent + 1
        hasRight == rightSiblingPosition < keyNumOf(w, parent) + 1
        rightP == ptrAt(w, parent, rightSiblingPosition)
        rightSibling == IF hasRight THEN asNode(rightP) ELSE Nil
        lk == keyNumOf(w, leftSibling)
        up(x) == rebalanceParentNode(x, parent, Cardinality(DOMAIN x.nodes))
    IN
    IF ~IsNode(w, parent) \/ pointerPositionInParent = -2 THEN Chk(w, FALSE)
    ELSE IF hasLeft /\ ~(okPtr(w, parent, leftSiblingPosition) /\ okNode(leftP)
                         /\ IsNode(w, leftSibling))
         THEN Chk(w, FALSE)
    ELSE IF hasLeft /\ lk > w.minKeyNum
               /\ ~(hasRight /\ keyNumOf(w, rightSibling) > w.minKeyNum)
         THEN \* borrow from the left sibling
           LET raise(x) == setKey(x, parent, keyPositionInParent,
                                  keyAt(x, n, 0))
           IN  Mark(raise(deleteAt(
                      insertAt(Chk(w, okKey(w, leftSibling, lk - 1)), n, 0,
                               keyAt(w, leftSibling, lk - 1), 0,
                               ptrAt(w, leftSibling, lk - 1)),
                      leftSibling, lk - 1, lk - 1)),
                    "leafBorrowLeft")
    ELSE IF hasRight /\ ~(okPtr(w, parent, rightSiblingPosition)
                          /\ okNode(rightP) /\ IsNode(w, rightSibling))
         THEN Chk(w, FALSE)
    ELSE IF hasRight /\ keyNumOf(w, rightSibling) > w.minKeyNum
         THEN \* borrow from the right sibling
           LET raise(x) == setKey(x, parent, rightSiblingPosition - 1,
                                  keyAt(x, rightSibling, 0))
           IN  Mark(raise(deleteAt(
                      append(w, n, keyAt(w, rightSibling, 0),
                             ptrAt(w, rightSibling, 0)),
                      rightSibling, 0, 0)),
                    "leafBorrowRight")
    ELSE IF leftSibling # Nil
         THEN up(Mark(deleteAt(copyFromRight(w, leftSibling, n), parent,
                               keyPositionInParent, pointerPositionInParent),
                      "leafMergeLeft"))
    ELSE IF rightSibling # Nil
         THEN up(Mark(deleteAt(copyFromRight(w, n, rightSibling), parent,
                               keyPositionInParent, rightSiblingPosition),
                      "leafMergeRight"))
    ELSE up(w)
  IN  under(parentOf(w, n), pointerPositionOf(w, parentOf(w, n), n))

\* rebalanceFromLeafNode starts rebalancing the tree from the leaf n
rebalanceFromLeafNode(w, n) ==
  LET under(parent, pointerPositionInParent) ==
    LET keyPositionInParent == IF pointerPositionInParent - 1 < 0 THEN 0
                               ELSE pointerPositionInParent - 1
        leftSiblingPosition == pointerPositionInParent - 1
        hasLeft == leftSiblingPosition >= 0
        leftP == ptrAt(w, parent, leftSiblingPosition)
        leftSibling == IF hasLeft THEN asNode(leftP) ELSE Nil
        rightSiblingPosition == pointerPositionInParent + 1
        hasRight == rightSiblingPosition < keyNumOf(w, parent) + 1
        rightP == ptrAt(w, parent, rightSiblingPosition)
        rightSibling == IF hasRight THEN asNode(rightP) ELSE Nil
        lk == keyNumOf(w, leftSibling)
        up(x) == rebalanceParentNode(x, parent, Cardinality(DOMAIN x.nodes))
    IN
    IF ~IsNode(w, parent) \/ pointerPositionInParent = -2 THEN Chk(w, FALSE)
    ELSE IF hasLeft /\ ~(okPtr(w, parent, leftSiblingPosition) /\ okNode(leftP)
                         /\ IsNode(w, leftSibling))
         THEN Chk(w, FALSE)
    ELSE IF hasLeft /\ lk > w.minKeyNum
         THEN \* borrow from the left sibling
           LET raise(x) == setKey(x, parent, keyPositionInParent,
                                  keyAt(x, n, 0))
           IN  Mark(raise(deleteAt(
                      insertAt(Chk(w, okKey(w, leftSibling, lk - 1)), n, 0,
                               keyAt(w, leftSibling, lk - 1), 0,
                               ptrAt(w, leftSibling, lk - 1)),
                      leftSibling, lk - 1, lk - 1)),
                    "leafBorrowLeft")
    ELSE IF hasRight /\ ~(okPtr(w, parent, rightSiblingPosition)
                          /\ okNode(rightP) /\ IsNode(w, rightSibling))
         THEN Chk(w, FALSE)
    ELSE IF hasRight /\ keyNumOf(w, rightSibling) > w.minKeyNum
         THEN \* borrow from the right sibling
           LET raise(x) == setKey(x, parent, rightSiblingPosition - 1,
                                  keyAt(x, rightSibling, 0))
           IN  Mark(raise(deleteAt(
                      append(w, n, keyAt(w, rightSibling, 0),
                             ptrAt(w, rightSibling, 0)),
                      rightSibling, 0, 0)),
                    "leafBorrowRight")
    ELSE IF leftSibling # Nil
         THEN up(Mark(deleteAt(copyFromRight(w, leftSibling, n), parent,
                               keyPositionInParent, pointerPositionInParent),
                      "leafMergeLeft"))
    ELSE IF rightSibling # Nil
         THEN up(Mark(deleteAt(copyFromRight(w, n, rightSibling), parent,
                               keyPositionInParent, rightSiblingPosition),
                      "leafMergeRight"))
    ELSE up(w)
  IN  under(parentOf(w, n), pointerPositionOf(w, parentOf(w, n), n))

\* deleteAtLeafAndRebalance that re-derives the separators only when the
\* leaf did not underflow
deleteAtLeafReindexesUnlessRebalanced(w, n, key) ==
  LET keyPos == keyPosition(w, n, key)
      value == asValue(ptrAt(w, n, keyPos))
      settle(x) ==
        IF parentOf(x, n) = Nil
        THEN IF keyNumOf(x, n) = 0
             THEN Ret(Mark([x EXCEPT !.root = Nil], "emptied"), value, TRUE)
             ELSE Ret(x, value, TRUE)
        ELSE IF keyNumOf(x, n) < x.minKeyNum
        THEN Ret(rebalanceFromLeafNode(x, n), value, TRUE)
        ELSE Ret(removeFromIndex(x, key), value, TRUE)
  IN  IF keyPos = -1 THEN Ret(w, << >>, FALSE)
      ELSE IF ~okValue(ptrAt(w, n, keyPos)) THEN Panicked(w)
      ELSE settle(deleteAt(w, n, keyPos, keyPos))

\* deleteAtLeafAndRebalance that never rebalances
deleteAtLeafNeverRebalances(w, n, key) ==
  LET keyPos == keyPosition(w, n, key)
      value == asValue(ptrAt(w, n, keyPos))
      settle(x) ==
        IF parentOf(x, n) = Nil
        THEN IF keyNumOf(x, n) = 0
             THEN Ret(Mark([x EXCEPT !.root = Nil], "emptied"), value, TRUE)
             ELSE Ret(x, value, TRUE)
        ELSE Ret(removeFromIndex(x, key), value, TRUE)
  IN  IF keyPos = -1 THEN Ret(w, << >>, FALSE)
      ELSE IF ~okValue(ptrAt(w, n, keyPos)) THEN Panicked(w)
      ELSE settle(deleteAt(w, n, keyPos, keyPos))

\* deleteAtLeafAndRebalance that re-derives the separators while the key is
\* still in its leaf
deleteAtLeafReindexesFirst(w, n, key) ==
  LET keyPos == keyPosition(w, n, key)
      value == asValue(ptrAt(w, n, keyPos))
      rebalanced(x) == IF keyNumOf(x, n) < x.minKeyNum
                       THEN rebalanceFromLeafNode(x, n)
                       ELSE x
      settle(x) ==
        IF parentOf(x, n) = Nil
        THEN IF keyNumOf(x, n) = 0
             THEN Ret(Mark([x EXCEPT !.root = Nil], "emptied"), value, TRUE)
             ELSE Ret(x, value, TRUE)
        ELSE Ret(rebalanced(x), value, TRUE)
  IN  IF keyPos = -1 THEN Ret(w, << >>, FALSE)
      ELSE IF ~okValue(ptrAt(w, n, keyPos)) THEN Panicked(w)
      ELSE settle(deleteAt(removeFromIndex(w, key), n, keyPos, keyPos))

\* deleteAtLeafAndRebalance deletes the key from the leaf and rebalances
deleteAtLeafAndRebalance(w, n, key) ==
  LET keyPos == keyPosition(w, n, key)
      value == asValue(ptrAt(w, n, keyPos))
      rebalanced(x) == IF keyNumOf(x, n) < x.minKeyNum
                       THEN rebalanceFromLeafNode(x, n)
                       ELSE x
      \* x: the world with the entry deleted from the leaf
      settle(x) ==
        IF parentOf(x, n) = Nil
        THEN IF keyNumOf(x, n) = 0
             THEN Ret(Mark([x EXCEPT !.root = Nil], "emptied"), value, TRUE)
             ELSE Ret(x, value, TRUE)
        ELSE Ret(removeFromIndex(rebalanced(x), key), value, TRUE)
  IN  IF keyPos = -1 THEN Ret(w, << >>, FALSE)
      ELSE IF ~okValue(ptrAt(w, n, keyPos)) THEN Panicked(w)
      ELSE settle(deleteAt(w, n, keyPos, keyPos))

\* Delete that decrements the size before it knows whether the key existed
DeleteAlwaysDecrements(w, key) ==
  LET shrunk(r) ==
        IF r.w.fault \/ r.w.diverged THEN Panicked(r.w)
        ELSE Ret([r.w EXCEPT !.size = r.w.size - 1],
                 IF r.ok THEN r.val ELSE << >>, r.ok)
      from(leaf) ==
        IF leaf = Diverges THEN Panicked([w EXCEPT !.diverged = TRUE])
        ELSE IF leaf < 0 THEN Panicked(w)
        ELSE shrunk(deleteAtLeafAndRebalance(w, leaf, key))
  IN  IF w.root = Nil THEN Ret(w, << >>, FALSE)
      ELSE from(findLeaf(w, key))

\* Delete without the check for the empty tree
DeleteWithoutRootCheck(w, key) ==
  LET shrunk(r) ==
        IF r.w.fault \/ r.w.diverged THEN Panicked(r.w)
        ELSE IF ~r.ok THEN Ret(r.w, << >>, FALSE)
        ELSE Ret([r.w EXCEPT !.size = r.w.size - 1], r.val, TRUE)
      from(leaf) ==
        IF leaf = Diverges THEN Panicked([w EXCEPT !.diverged = TRUE])
        ELSE IF leaf < 0 THEN Panicked(w)
        ELSE shrunk(deleteAtLeafAndRebalance(w, leaf, key))
  IN  from(findLeaf(w, key))

\* Delete deletes the key; returns the deleted value and true if the key
\* exists
Delete(w, key) ==
  LET shrunk(r) ==
        IF r.w.fault \/ r.w.diverged THEN Panicked(r.w)
        ELSE IF ~r.ok THEN Ret(r.w, << >>, FALSE)
        ELSE Ret([r.w EXCEPT !.size = r.w.size - 1], r.val, TRUE)
      from(leaf) ==
        IF leaf = Diverges THEN Panicked([w EXCEPT !.diverged = TRUE])
        ELSE IF leaf < 0 THEN Panicked(w)
        ELSE shrunk(deleteAtLeafAndRebalance(w, leaf, key))
  IN  IF w.root = Nil THEN Ret(w, << >>, FALSE)
      ELSE from(findLeaf(w, key))

\* Size returns the size of the tree
Size(w) == w.size

\* -------------------------------------------------------------- iterator
\* an iterator is a leaf reference and an index into that leaf; live tells
\* whether a caller holds it
NoIterator == [live |-> FALSE, next |-> Nil, i |-> 0]

\* Iterator returns an iterator positioned at the leftmost leaf
Iterator(w) == [live |-> TRUE, next |-> w.leftmost, i |-> 0]

\* HasNext returns true if there is a next element to retrieve
HasNext(w, it) == it.next # Nil /\ it.i < keyNumOf(w, it.next)

\* Next that returns an empty pair instead of panicking at the end
IterNextWithoutPanic(w, it) ==
  IF ~HasNext(w, it)
  THEN [it |-> it, key |-> << >>, val |-> << >>, panic |-> FALSE]
  ELSE LET key == keyAt(w, it.next, it.i)
           value == asValue(ptrAt(w, it.next, it.i))
           i1 == it.i + 1
           nextPointer == lastPointer(w, it.next)
       IN  IF i1 = keyNumOf(w, it.next)
           THEN [it |-> [it EXCEPT !.next = asNode(nextPointer), !.i = 0],
                 key |-> key, val |-> value, panic |-> FALSE]
           ELSE [it |-> [it EXCEPT !.i = i1],
                 key |-> key, val |-> value, panic |-> FALSE]

\* Next that keeps its index when it moves to the next leaf
IterNextKeepsIndex(w, it) ==
  IF ~HasNext(w, it)
  THEN [it |-> it, key |-> << >>, val |-> << >>, panic |-> TRUE]
  ELSE IF ~(okKey(w, it.next, it.i) /\ okValue(ptrAt(w, it.next, it.i)))
  THEN [it |-> it, key |-> << >>, val |-> << >>, panic |-> TRUE]
  ELSE LET key == keyAt(w, it.next, it.i)
           value == asValue(ptrAt(w, it.next, it.i))
           i1 == it.i + 1
           nextPointer == lastPointer(w, it.next)
       IN  IF i1 = keyNumOf(w, it.next)
           THEN IF nextPointer # NilP
                THEN IF ~okNode(nextPointer)
                     THEN [it |-> [it EXCEPT !.i = i1], key |-> << >>,
                           val |-> << >>, panic |-> TRUE]
                     ELSE [it |-> [it EXCEPT !.next = asNode(nextPointer),
                                             !.i = i1],
                           key |-> key, val |-> value, panic |-> FALSE]
                ELSE [it |-> [it EXCEPT !.next = Nil, !.i = 0],
                      key |-> key, val |-> value, panic |-> FALSE]
           ELSE [it |-> [it EXCEPT !.i = i1],
                 key |-> key, val |-> value, panic |-> FALSE]

\* Next that goes back to the leftmost leaf after the last leaf
IterNextWrapsAround(w, it) ==
  IF ~HasNext(w, it)
  THEN [it |-> it, key |-> << >>, val |-> << >>, panic |-> TRUE]
  ELSE IF ~(okKey(w, it.next, it.i) /\ okValue(ptrAt(w, it.next, it.i)))
  THEN [it |-> it, key |-> << >>, val |-> << >>, panic |-> TRUE]
  ELSE LET key == keyAt(w, it.next, it.i)
           value == asValue(ptrAt(w, it.next, it.i))
           i1 == it.i + 1
           nextPointer == lastPointer(w, it.next)
       IN  IF i1 = keyNumOf(w, it.next)
           THEN IF nextPointer # NilP
                THEN IF ~okNode(nextPointer)
                     THEN [it |-> [it EXCEPT !.i = i1], key |-> << >>,
                           val |-> << >>, panic |-> TRUE]
                     ELSE [it |-> [it EXCEPT !.next = asNode(nextPointer),
                                             !.i = 0],
                           key |-> key, val |-> value, panic |-> FALSE]
                ELSE [it |-> [it EXCEPT !.next = w.leftmost, !.i = 0],
                      key |-> key, val |-> value, panic |-> FALSE]
           ELSE [it |-> [it EXCEPT !.i = i1],
                 key |-> key, val |-> value, panic |-> FALSE]

\* Next returns the key and the value at the current position and advances
\* the iterator; it panics when there is no next element
IterNext(w, it) ==
  IF ~HasNext(w, it)
  THEN [it |-> it, key |-> << >>, val |-> << >>, panic |-> TRUE]
  ELSE IF ~(okKey(w, it.next, it.i) /\ okValue(ptrAt(w, it.next, it.i)))
  THEN [it |-> it, key |-> << >>, val |-> << >>, panic |-> TRUE]
  ELSE LET key == keyAt(w, it.next, it.i)
           value == asValue(ptrAt(w, it.next, it.i))
           i1 == it.i + 1
           nextPointer == lastPointer(w, it.next)
       IN  IF i1 = keyNumOf(w, it.next)
           THEN IF nextPointer # NilP
                THEN IF ~okNode(nextPointer)
                     THEN [it |-> [it EXCEPT !.i = i1], key |-> << >>,
                           val |-> << >>, panic |-> TRUE]
                     ELSE [it |-> [it EXCEPT !.next = asNode(nextPointer),
                                             !.i = 0],
                           key |-> key, val |-> value, panic |-> FALSE]
                ELSE [it |-> [it EXCEPT !.next = Nil, !.i = 0],
                      key |-> key, val |-> value, panic |-> FALSE]
           ELSE [it |-> [it EXCEPT !.i = i1],
                 key |-> key, val |-> value, panic |-> FALSE]

\* the pairs an iterator yields when it is drained from position it, the
\* way ForEach drains it; ok is false if a Next panics or the loop has not
\* ended after fuel steps
RECURSIVE drain(_, _, _, _)
drain(w, it, acc, fuel) ==
  IF ~HasNext(w, it) THEN [seq |-> acc, ok |-> TRUE]
  ELSE IF fuel = 0 THEN [seq |-> acc, ok |-> FALSE]
  ELSE LET visit(r) ==
             IF r.panic THEN [seq |-> acc, ok |-> FALSE]
             ELSE drain(w, r.it, Append(acc, <<r.key, r.val>>), fuel - 1)
       IN  visit(IterNext(w, it))

\* more steps than any chain of distinct leaves can take
IterFuel(w) == Cardinality(DOMAIN w.nodes) * w.order + 1

\* ForEach traverses the tree in ascending key order: the sequence of
\* (key, value) pairs the action is called with
ForEach(w) == drain(w, Iterator(w), << >>, IterFuel(w))

\* ------------------------------------------------- garbage and addresses
\* The Go runtime frees the nodes nothing refers to, and a node's address
\* is observable only through pointer equality.  After each call the heap
\* keeps the nodes reachable from the tree and the iterators and numbers
\* them in the order a depth-first walk from root, leftmost and the
\* iterators meets them.
nodeRefs(nd) ==
  LET slots == SelectSeq(nd.pointers, LAMBDA p : p.k = "node")
  IN  [i \in 1..Len(slots) |-> slots[i].n] \o <<nd.parent>>

InSeq(x, sq) == \E i \in 1..Len(sq) : sq[i] = x

RECURSIVE walk(_, _, _)
walk(heap, stack, seen) ==
  IF stack = << >> THEN seen
  ELSE LET id == Head(stack)
       IN  IF id \notin DOMAIN heap \/ InSeq(id, seen)
           THEN walk(heap, Tail(stack), seen)
           ELSE walk(heap, nodeRefs(heap[id]) \o Tail(stack), Append(seen, id))

Collect(w, its) ==
  LET roots == <<w.root, w.leftmost>> \o [j \in 1..Len(its) |-> its[j].next]
      live == walk(w.nodes, roots, << >>)
      addr(id) == IF id = Nil \/ ~InSeq(id, live) THEN Nil
                  ELSE CHOOSE i \in 1..Len(live) : live[i] = id
      movePtr(p) == IF p.k = "node" THEN NodeP(addr(p.n)) ELSE p
      moveNode(nd) == [nd EXCEPT
                         !.parent = addr(nd.parent),
                         !.pointers = [i \in 1..Len(nd.pointers) |->
                                         movePtr(nd.pointers[i])]]
  IN  [w |-> [w EXCEPT !.root = addr(w.root),
                       !.leftmost = addr(w.leftmost),
                       !.nodes = [i \in 1..Len(live) |->
                                    moveNode(w.nodes[live[i]])]],
       its |-> [j \in 1..Len(its) |->
                  [its[j] EXCEPT !.next = addr(its[j].next)]]]

\* ----------------------------------------------------------------- state
VARIABLES
  constructed,  \* whether New has returned a tree
  order,        \* BPTree.order
  minKeyNum,    \* BPTree.minKeyNum
  root,         \* BPTree.root
  leftmost,     \* BPTree.leftmost
  size,         \* BPTree.size
  nodes,        \* the heap: address -> node
  iters,        \* the iterators of the callers
  yielded,      \* per iterator, the pairs its Next calls have returned
  stored,       \* the map the callers have built: key -> value last Put
  hist,         \* "fresh": no Put or Delete yet; "grown": only Puts of new
                \* keys so far; "mixed": anything else
  plan,         \* the keys put so far and not yet deleted, in the order put
                \* (kept by the callers that delete in insertion order)
  drained,      \* how many keys those callers have deleted so far
  last          \* the call that has just returned, with its results

cfgVars == <<constructed, order, minKeyNum>>
treeVars == <<root, leftmost, size, nodes>>
iterVars == <<iters, yielded>>
drainVars == <<plan, drained>>
vars == <<cfgVars, treeVars, iterVars, stored, hist, drainVars, last>>

\* the tree object and the heap as one world
World ==
  [root |-> root, leftmost |-> leftmost, order |-> order, size |-> size,
   minKeyNum |-> minKeyNum, nodes |-> nodes, fault |-> FALSE,
   diverged |-> FALSE, ev |-> {}]

\* the record of a call: op, its arguments (key, val, it), its results
\* (rkey, rval, ok, n, seq), whether it panicked or did not end, the steps
\* it took (ev), and what held when it was made: whether the key was stored
\* (had) and with which value (old), the size (size0), and for Next whether
\* HasNext held (had) and how many pairs the iterator had yielded (n0)
NoCall ==
  [op |-> "none", key |-> << >>, val |-> << >>, rkey |-> << >>,
   rval |-> << >>, ok |-> FALSE, panic |-> FALSE, diverged |-> FALSE,
   it |-> 0, seq |-> << >>, n |-> 0, ev |-> {},
   had |-> FALSE, old |-> << >>, size0 |-> 0, n0 |-> 0]

Has(key) == key \in DOMAIN stored
Old(key) == IF Has(key) THEN stored[key] ELSE << >>

Idle == constructed /\ last.op = "none"

NoLiveIterator == \A j \in DOMAIN iters : ~iters[j].live

\* install the world a call leaves behind
Install(w, its) ==
  LET become(c) ==
        /\ root' = c.w.root
        /\ leftmost' = c.w.leftmost
        /\ size' = c.w.size
        /\ nodes' = c.w.nodes
        /\ iters' = c.its
  IN  become(Collect(w, its))

Init ==
  /\ constructed = FALSE
  /\ order = 0
  /\ minKeyNum = 0
  /\ root = Nil
  /\ leftmost = Nil
  /\ size = 0
  /\ nodes = << >>
  /\ iters = [j \in 1..NumIters |-> NoIterator]
  /\ yielded = [j \in 1..NumIters |-> << >>]
  /\ stored = << >>
  /\ hist = "fresh"
  /\ plan = << >>
  /\ drained = 0
  /\ last = NoCall

\* New whose Order option accepts every order
NewTreeAcceptsAnyOrder(o) ==
  /\ ~constructed
  /\ last.op = "none"
  /\ last' = [NoCall EXCEPT !.op = "New", !.n = o, !.ok = TRUE]
  /\ constructed' = TRUE
  /\ order' = o
  /\ minKeyNum' = ceil(o, 2) - 1
  /\ UNCHANGED <<treeVars, iterVars, stored, hist, drainVars>>

\* New(Order(o)): a configuration error below MinOrder, else the empty tree
\* with minKeyNum = ceil(order / 2) - 1
NewTree(o) ==
  /\ ~constructed
  /\ last.op = "none"
  /\ IF o < MinOrder
     THEN /\ last' = [NoCall EXCEPT !.op = "New", !.n = o, !.ok = FALSE]
          /\ UNCHANGED cfgVars
     ELSE /\ last' = [NoCall EXCEPT !.op = "New", !.n = o, !.ok = TRUE]
          /\ constructed' = TRUE
          /\ order' = o
          /\ minKeyNum' = ceil(o, 2) - 1
  /\ UNCHANGED <<treeVars, iterVars, stored, hist, drainVars>>

\* New(): the order is defaultOrder
NewDefault ==
  /\ ~constructed
  /\ last.op = "none"
  /\ last' = [NoCall EXCEPT !.op = "New", !.n = defaultOrder, !.ok = TRUE]
  /\ constructed' = TRUE
  /\ order' = defaultOrder
  /\ minKeyNum' = ceil(defaultOrder, 2) - 1
  /\ UNCHANGED <<treeVars, iterVars, stored, hist, drainVars>>

\* the caller takes the results of the call that returned
Return ==
  /\ last.op # "none"
  /\ last' = NoCall
  /\ UNCHANGED <<cfgVars, treeVars, iterVars, stored, hist, drainVars>>

\* the record of a call of Get, Put or Delete that ended with r
CallRecord(op, key, value, r) ==
  [NoCall EXCEPT !.op = op, !.key = key, !.val = value, !.rval = r.val,
                 !.ok = r.ok, !.panic = r.w.fault, !.diverged = r.w.diverged,
                 !.ev = r.w.ev, !.had = Has(key), !.old = Old(key),
                 !.size0 = size]

DoGet(key) ==
  /\ Idle
  /\ LET returns(r) == /\ last' = CallRecord("Get", key, << >>, r)
                        /\ Install(r.w, iters)
     IN  returns(Get(World, key))
  /\ UNCHANGED <<cfgVars, yielded, stored, hist, drainVars>>

\* callers do not mutate the tree while an iterator is in use
DoPut(key, value) ==
  /\ Idle
  /\ NoLiveIterator
  /\ LET returns(r) == /\ last' = CallRecord("Put", key, value, r)
                        /\ Install(r.w, iters)
     IN  returns(Put(World, key, value))
  /\ stored' = (key :> value) @@ stored
  /\ hist' = IF hist # "mixed" /\ ~Has(key) THEN "grown" ELSE "mixed"
  /\ UNCHANGED <<cfgVars, yielded, drainVars>>

DoDelete(key) ==
  /\ Idle
  /\ NoLiveIterator
  /\ LET returns(r) == /\ last' = CallRecord("Delete", key, << >>, r)
                        /\ Install(r.w, iters)
     IN  returns(Delete(World, key))
  /\ stored' = [k \in (DOMAIN stored) \ {key} |-> stored[k]]
  /\ hist' = "mixed"
  /\ UNCHANGED <<cfgVars, yielded, drainVars>>

DoSize ==
  /\ Idle
  /\ last' = [NoCall EXCEPT !.op = "Size", !.n = Size(World)]
  /\ UNCHANGED <<cfgVars, treeVars, iterVars, stored, hist, drainVars>>

DoForEach ==
  /\ Idle
  /\ LET returns(r) == last' = [NoCall EXCEPT !.op = "ForEach",
                                               !.seq = r.seq,
                                               !.diverged = ~r.ok]
     IN  returns(ForEach(World))
  /\ UNCHANGED <<cfgVars, treeVars, iterVars, stored, hist, drainVars>>

DoIterator(j) ==
  /\ Idle
  /\ ~iters[j].live
  /\ size <= MaxIterated
  /\ iters' = [iters EXCEPT ![j] = Iterator(World)]
  /\ yielded' = [yielded EXCEPT ![j] = << >>]
  /\ last' = [NoCall EXCEPT !.op = "Iterator", !.it = j]
  /\ UNCHANGED <<cfgVars, treeVars, stored, hist, drainVars>>

DoHasNext(j) ==
  /\ Idle
  /\ iters[j].live
  /\ last' = [NoCall EXCEPT !.op = "HasNext", !.it = j,
                            !.ok = HasNext(World, iters[j]),
                            !.n0 = Len(yielded[j])]
  /\ UNCHANGED <<cfgVars, treeVars, iterVars, stored, hist, drainVars>>

\* Next on a position that all the iterators of the tree share
DoNextSharedPosition(j) ==
  /\ Idle
  /\ iters[j].live
  /\ LET returns(r) ==
           /\ last' = [NoCall EXCEPT !.op = "Next", !.it = j, !.rkey = r.key,
                                     !.rval = r.val, !.ok = ~r.panic,
                                     !.panic = r.panic,
                                     !.had = HasNext(World, iters[j]),
                                     !.n0 = Len(yielded[j])]
           /\ iters' = [k \in DOMAIN iters |->
                          IF iters[k].live THEN r.it ELSE iters[k]]
           /\ yielded' = IF r.panic THEN yielded
                         ELSE [yielded EXCEPT
                                 ![j] = Append(@, <<r.key, r.val>>)]
     IN  returns(IterNext(World, iters[j]))
  /\ UNCHANGED <<cfgVars, treeVars, stored, hist, drainVars>>

DoNext(j) ==
  /\ Idle
  /\ iters[j].live
  /\ LET returns(r) ==
           /\ last' = [NoCall EXCEPT !.op = "Next", !.it = j, !.rkey = r.key,
                                     !.rval = r.val, !.ok = ~r.panic,
                                     !.panic = r.panic,
                                     !.had = HasNext(World, iters[j]),
                                     !.n0 = Len(yielded[j])]
           /\ iters' = [iters EXCEPT ![j] = r.it]
           /\ yielded' = IF r.panic THEN yielded
                         ELSE [yielded EXCEPT
                                 ![j] = Append(@, <<r.key, r.val>>)]
     IN  returns(IterNext(World, iters[j]))
  /\ UNCHANGED <<cfgVars, treeVars, stored, hist, drainVars>>

\* the caller drops the iterator
DoDiscard(j) ==
  /\ Idle
  /\ iters[j].live
  /\ last' = NoCall
  /\ Install(World, [iters EXCEPT ![j] = NoIterator])
  /\ yielded' = [yielded EXCEPT ![j] = << >>]
  /\ UNCHANGED <<cfgVars, stored, hist, drainVars>>

Next ==
  \/ \E o \in (MinOrder - 1)..MaxOrder : NewTree(o)
  \/ NewDefault
  \/ Return
  \/ \E key \in KeysOf(order) : DoGet(key)
  \/ \E key \in KeysOf(order) : \E value \in ValuesOf(key) : DoPut(key, value)
  \/ \E key \in KeysOf(order) : DoDelete(key)
  \/ DoSize
  \/ DoForEach
  \/ \E j \in 1..NumIters : DoIterator(j)
  \/ \E j \in 1..NumIters : DoHasNext(j)
  \/ \E j \in 1..NumIters : DoNext(j)
  \/ \E j \in 1..NumIters : DoDiscard(j)

Spec == Init /\ [][Next]_vars

\* ------------------------------------- callers that delete in insertion order
\* The callers of TestDelete: put distinct keys, each with its own value,
\* then delete every key one at a time in the order they were put.
PlanPut(key) ==
  /\ constructed
  /\ drained = 0
  /\ ~Has(key)
  /\ LET returns(r) == /\ last' = CallRecord("Put", key, OwnValue(key), r)
                        /\ Install(r.w, iters)
     IN  returns(Put(World, key, OwnValue(key)))
  /\ stored' = (key :> OwnValue(key)) @@ stored
  /\ hist' = "grown"
  /\ plan' = Append(plan, key)
  /\ UNCHANGED <<cfgVars, yielded, drained>>

PlanDelete ==
  /\ constructed
  /\ plan # << >>
  /\ LET key == Head(plan)
         returns(r) == /\ last' = CallRecord("Delete", key, << >>, r)
                       /\ Install(r.w, iters)
     IN  /\ returns(Delete(World, key))
         /\ stored' = [k \in (DOMAIN stored) \ {key} |-> stored[k]]
  /\ hist' = "mixed"
  /\ plan' = Tail(plan)
  /\ drained' = drained + 1
  /\ UNCHANGED <<cfgVars, yielded>>

NextDrain ==
  \/ \E o \in (MinOrder - 1)..MaxOrder : NewTree(o)
  \/ \E key \in KeysOf(order) : PlanPut(key)
  \/ PlanDelete

SpecDrain == Init /\ [][NextDrain]_vars

\* ------------------------------- callers that write to the buffer they passed
\* The caller of the README's Limitations section: it passes Put a buffer
\* it keeps, and after Put has returned it either writes other bytes into
\* that buffer (b[0] = 2) or lets go of it.

\* the nodes after the caller has written bytes into its buffer: every key
\* slice backed by the buffer reads the new bytes
writeBuffer(heap, bytes) ==
  [id \in DOMAIN heap |->
     [heap[id] EXCEPT
        !.keys = [i \in 1..Len(heap[id].keys) |->
                    IF sharesCallerBuffer(heap[id].keys[i])
                    THEN callerBuffer(bytes)
                    ELSE heap[id].keys[i]]]]

\* the nodes after the caller has let go of its buffer: the array is left
\* to the slices of the tree that are backed by it
dropBuffer(heap) ==
  [id \in DOMAIN heap |->
     [heap[id] EXCEPT
        !.keys = [i \in 1..Len(heap[id].keys) |->
                    [j \in 1..Len(heap[id].keys[i]) |->
                       byteOf(heap[id].keys[i][j])]]]]

\* Put(b, value) where b is a buffer of the caller that holds key
PutBuffer(key) ==
  /\ Idle
  /\ LET returns(r) == /\ last' = CallRecord("Put", key, OwnValue(key), r)
                        /\ Install(r.w, iters)
     IN  returns(Put(World, callerBuffer(key), OwnValue(key)))
  /\ stored' = (key :> OwnValue(key)) @@ stored
  /\ hist' = IF hist # "mixed" /\ ~Has(key) THEN "grown" ELSE "mixed"
  /\ UNCHANGED <<cfgVars, yielded, drainVars>>

\* the caller overwrites the buffer it passed to the Put that has returned;
\* the buffer keeps its length
WriteBuffer(bytes) ==
  /\ constructed
  /\ last.op = "Put"
  /\ Len(bytes) = Len(last.key)
  /\ bytes # last.key
  /\ nodes' = writeBuffer(nodes, bytes)
  /\ last' = [NoCall EXCEPT !.op = "Write", !.key = last.key, !.val = bytes]
  /\ UNCHANGED <<cfgVars, root, leftmost, size, iterVars, stored, hist,
                 drainVars>>

\* the caller takes the results of the call that returned and lets go of
\* the buffer it passed
ReturnBuffer ==
  /\ last.op \in {"New", "Put", "Delete"}
  /\ nodes' = dropBuffer(nodes)
  /\ last' = NoCall
  /\ UNCHANGED <<cfgVars, root, leftmost, size, iterVars, stored, hist,
                 drainVars>>

NextBuffer ==
  \/ \E o \in (MinOrder - 1)..MaxOrder : NewTree(o)
  \/ \E key \in KeysOf(order) : PutBuffer(key)
  \/ \E key \in KeysOf(order) : DoDelete(key)
  \/ \E bytes \in KeysOf(order) : WriteBuffer(bytes)
  \/ ReturnBuffer

SpecBuffer == Init /\ [][NextBuffer]_vars

\* ------------------------------------------ callers that read side by side
\* Callers that hold NumReaders iterators over the same tree and call
\* HasNext and Next on them in any interleaving; the tree is built, and
\* changed between traversals, by Put and Delete.
InitReaders ==
  /\ constructed = FALSE
  /\ order = 0
  /\ minKeyNum = 0
  /\ root = Nil
  /\ leftmost = Nil
  /\ size = 0
  /\ nodes = << >>
  /\ iters = [j \in 1..NumReaders |-> NoIterator]
  /\ yielded = [j \in 1..NumReaders |-> << >>]
  /\ stored = << >>
  /\ hist = "fresh"
  /\ plan = << >>
  /\ drained = 0
  /\ last = NoCall

NextReaders ==
  \/ \E o \in (MinOrder - 1)..MaxOrder : NewTree(o)
  \/ Return
  \/ \E key \in KeysOf(order) : DoPut(key, OwnValue(key))
  \/ \E key \in KeysOf(order) : DoDelete(key)
  \/ \E j \in 1..NumReaders : DoIterator(j)
  \/ \E j \in 1..NumReaders : DoHasNext(j)
  \/ \E j \in 1..NumReaders : DoNext(j)
  \/ \E j \in 1..NumReaders : DoDiscard(j)

SpecReaders == InitReaders /\ [][NextReaders]_vars

\* ------------------------------------------------------------ properties
\* the number of distinct keys the callers have stored
NumStored == Cardinality(DOMAIN stored)

\* every pair of seq is a stored pair and the keys strictly ascend in
\* lexicographic byte order (so no key occurs twice)
AscendingStored(seq) ==
  /\ \A i \in 1..Len(seq) : Has(seq[i][1]) /\ seq[i][2] = stored[seq[i][1]]
  /\ \A i \in 1..(Len(seq) - 1) : compare(seq[i][1], seq[i + 1][1]) < 0

\* seq skips no stored key below its last key
NoGap(seq) ==
  \A key \in DOMAIN stored :
    (seq # << >> /\ compare(key, seq[Len(seq)][1]) < 0)
      => \E i \in 1..Len(seq) : seq[i][1] = key

\* seq is exactly the stored pairs, once each, in ascending key order
ExactlyStored(seq) == AscendingStored(seq) /\ Len(seq) = NumStored

\* the tree has at least three levels
ThreeLevels ==
  /\ root # Nil
  /\ ~isLeaf(World, root)
  /\ ~isLeaf(World, asNode(ptrAt(World, root, 0)))

\* C1: for every order in 3..7, while only distinct keys have been put,
\* every Put returns (nil, false), Get of a key that was put returns its
\* value and true, and Get of a key that was never put returns (nil, false).
C1_DistinctPutsThenGet ==
  (constructed /\ hist \in {"fresh", "grown"}) =>
    /\ order \in MinOrder..MaxOrder
    /\ last.op = "Put" => ~last.panic /\ ~last.ok /\ last.rval = << >>
    /\ last.op = "Get" =>
         /\ ~last.panic
         /\ last.had => last.ok /\ last.rval = last.old
         /\ ~last.had => ~last.ok /\ last.rval = << >>
    /\ \A key \in KeysOf(order) :
         Get(World, key) = Ret(World, Old(key), Has(key))

C1_Witness ==
  /\ hist = "grown"
  /\ order = MaxOrder
  /\ last.op = "Get" /\ last.had /\ last.ok
  /\ root # Nil /\ ~isLeaf(World, root)
  /\ NumStored = MaxOrder

\* C2: Put of a key the tree holds returns the value it held and true, and
\* Get of the key then returns the new value and true, in whatever leaf the
\* key lives and after however many splits.
C2_OverwriteReturnsPrevious ==
  (last.op = "Put" /\ last.had) =>
    /\ ~last.panic
    /\ last.ok
    /\ last.rval = last.old
    /\ Get(World, last.key) = Ret(World, last.val, TRUE)

C2_Witness ==
  /\ last.op = "Put" /\ last.had /\ last.ok
  /\ last.val # last.old
  /\ ThreeLevels

\* C3: after any sequence of Puts and Deletes, ForEach and a newly created
\* Iterator both yield exactly the stored pairs, each once, in strictly
\* ascending lexicographic key order.
C3_IterationYieldsStored ==
  /\ last.op = "ForEach" => ~last.diverged /\ ExactlyStored(last.seq)
  /\ \A j \in 1..NumIters :
       iters[j].live =>
         /\ AscendingStored(yielded[j])
         /\ NoGap(yielded[j])
         /\ ~HasNext(World, iters[j]) => Len(yielded[j]) = NumStored

C3_Witness ==
  /\ hist = "mixed"
  /\ last.op = "ForEach" /\ Len(last.seq) >= 3
  /\ root # Nil /\ ~isLeaf(World, root)
  /\ \E j \in 1..NumIters :
       iters[j].live /\ ~HasNext(World, iters[j]) /\ Len(yielded[j]) >= 3

\* C4: Size() is the number of distinct keys stored: a Put of a new key
\* adds one whatever splits it causes, an overwriting Put and a Delete that
\* finds nothing leave it, a Delete that finds its key takes one away.
C4_SizeCountsKeys ==
  /\ constructed => Size(World) = NumStored
  /\ last.op = "Size" => last.n = NumStored
  /\ last.op = "Put" =>
       size = last.size0 + (IF last.had THEN 0 ELSE 1)
  /\ last.op = "Delete" =>
       /\ size = last.size0 - (IF last.ok THEN 1 ELSE 0)
       /\ last.ok <=> last.had

C4_Witness ==
  /\ last.op = "Put" /\ ~last.had
  /\ {"leafSplit", "internalSplit", "newRoot"} \subseteq last.ev
  /\ size = last.size0 + 1

\* C5: Delete of a key the tree holds returns the value most recently put
\* for it and true, for every order and whatever rebalancing the removal
\* takes (none, borrow, merge, root collapse).
C5_DeleteReturnsStoredValue ==
  (last.op = "Delete" /\ last.had) =>
    /\ ~last.panic
    /\ ~last.diverged
    /\ last.ok
    /\ last.rval = last.old

C5_Witness ==
  /\ last.op = "Delete" /\ last.had /\ last.ok
  /\ last.rval = last.old
  /\ {"leafMergeLeft", "internalBorrowLeft"} \subseteq last.ev

\* C6: once Delete of a key has returned true, Get of the key returns
\* (nil, false) and another Delete of it returns (nil, false), and so it
\* stays for as long as the key is not put again.
C6_DeletedKeyIsGone ==
  /\ (last.op = "Delete" /\ last.ok) =>
       /\ Get(World, last.key) = Ret(World, << >>, FALSE)
       /\ LET again == Delete(World, last.key)
          IN  ~again.w.fault /\ ~again.ok /\ again.val = << >>
  /\ (last.op \in {"Get", "Delete"} /\ ~last.had) =>
       ~last.panic /\ ~last.ok /\ last.rval = << >>

C6_Witness ==
  /\ last.op = "Delete" /\ last.ok
  /\ "reindex" \in last.ev
  /\ ThreeLevels

\* C7: Delete on an empty tree or of a key that is not stored returns
\* (nil, false) without a fault and leaves the whole tree (every node, the
\* root, the leftmost leaf, the size) as it was.
C7_FailedDeleteChangesNothing ==
  [][(last'.op = "Delete" /\ ~last'.had) =>
       /\ ~last'.panic
       /\ ~last'.diverged
       /\ ~last'.ok
       /\ last'.rval = << >>
       /\ last'.ev = {}
       /\ UNCHANGED treeVars]_vars

C7_Witness ==
  /\ last.op = "Delete" /\ ~last.had /\ ~last.ok
  /\ ThreeLevels

\* C8: for every order in 3..7 and every set of keys put, deleting every
\* key in the order it was put returns true and the stored value each time,
\* and after the last deletion Size() is 0 and iteration yields nothing.
C8_DrainInInsertionOrder ==
  /\ drained > 0 =>
       /\ order \in MinOrder..MaxOrder
       /\ last.op = "Delete"
       /\ last.had
       /\ ~last.panic
       /\ ~last.diverged
       /\ last.ok
       /\ last.rval = last.old
  /\ (drained > 0 /\ plan = << >>) =>
       /\ Size(World) = 0
       /\ ForEach(World) = [seq |-> << >>, ok |-> TRUE]
       /\ ~HasNext(World, Iterator(World))

C8_Witness ==
  /\ order = MaxOrder
  /\ drained = MaxOrder
  /\ plan = << >>
  /\ last.op = "Delete" /\ last.ok

\* C9: on a newly constructed tree Get and Delete of any key return
\* (nil, false), Size() is 0, Iterator().HasNext() is false and ForEach
\* calls its action no times.
C9_FreshTreeIsEmpty ==
  (constructed /\ hist = "fresh") =>
    /\ \A key \in KeysOf(order) :
         /\ Get(World, key) = Ret(World, << >>, FALSE)
         /\ Delete(World, key) = Ret(World, << >>, FALSE)
    /\ Size(World) = 0
    /\ ~HasNext(World, Iterator(World))
    /\ ForEach(World) = [seq |-> << >>, ok |-> TRUE]
    /\ last.op = "HasNext" => ~last.ok
    /\ last.op = "Size" => last.n = 0
    /\ last.op = "ForEach" => last.seq = << >> /\ ~last.diverged
    /\ last.op = "Get" => ~last.ok /\ last.rval = << >> /\ ~last.panic

C9_Witness ==
  /\ constructed
  /\ hist = "fresh"
  /\ last.op = "HasNext" /\ ~last.ok

\* C10: Next panics when HasNext is false, on an empty tree and after the
\* last element has been returned, and returns normally whenever HasNext
\* is true.
C10_NextPanicsExactlyAtEnd ==
  last.op = "Next" =>
    /\ last.panic <=> ~last.had
    /\ last.had <=> last.n0 < NumStored
    /\ ~last.panic =>
         Has(last.rkey) /\ last.rval = stored[last.rkey]

C10_Witness ==
  /\ last.op = "Next" /\ last.panic /\ ~last.had
  /\ last.n0 = NumStored
  /\ NumStored >= 3

C12_PutCopiesTheKey ==
  [][last'.op = "Write" => nodes' = nodes]_vars

\* seq starts with the pairs of head, in the same order
StartsWith(seq, head) ==
  /\ Len(head) <= Len(seq)
  /\ \A i \in 1..Len(head) : seq[i] = head[i]

\* C13: with two or more iterators over the same tree and HasNext / Next
\* called on them in any interleaving, a call on one iterator changes
\* neither the tree nor any other iterator, and every iterator yields what
\* it yields when run alone: the pairs it has returned so far are the
\* first pairs of the full ascending sequence of the stored pairs, and it
\* has a next element until it has returned them all.
C13_IteratorsAreIndependent ==
  [][last'.op \in {"HasNext", "Next"} =>
       /\ UNCHANGED treeVars
       /\ \A k \in DOMAIN iters :
            k # last'.it => iters'[k] = iters[k] /\ yielded'[k] = yielded[k]
       /\ ExactlyStored(ForEach(World).seq)
       /\ \A k \in DOMAIN iters :
            iters'[k].live =>
              /\ StartsWith(ForEach(World).seq, yielded'[k])
              /\ HasNext(World, iters'[k]) <=> Len(yielded'[k]) < NumStored
              /\ last'.op = "HasNext" /\ last'.it = k =>
                   (last'.ok <=> Len(yielded'[k]) < NumStored)]_vars

\* the second iterator has returned its first pair after the first iterator
\* has returned three and moved on to another leaf
C13_Witness ==
  /\ last.op = "Next" /\ last.it = 2 /\ ~last.panic
  /\ iters[1].live /\ iters[2].live
  /\ Len(yielded[1]) = 3
  /\ Len(yielded[2]) = 1
  /\ NumStored = 4
  /\ iters[1].next # iters[2].next

\* C14: Get of any key on any tree, the empty tree included, returns
\* without a fault and changes nothing: root, leftmost, size and every
\* node (keys, values, children, parent, next) are as they were, and so is
\* every iterator.
C14_GetChangesNothing ==
  [][last'.op = "Get" =>
       /\ ~last'.panic
       /\ ~last'.diverged
       /\ last'.ev = {}
       /\ UNCHANGED <<cfgVars, treeVars, iterVars>>]_vars

C14_Witness ==
  /\ last.op = "Get" /\ last.ok
  /\ ThreeLevels

\* C15: the empty key and the empty value are entries like any other: while
\* the empty key is stored, Get of it returns its value and true and
\* iteration yields it first; a key stored with the empty value is found
\* by Get (with the empty value) and reported deleted by Delete.
C15_EmptyKeyAndValueAreValid ==
  /\ Has(<< >>) =>
       /\ Get(World, << >>) = Ret(World, stored[<< >>], TRUE)
       /\ ForEach(World).seq # << >>
       /\ ForEach(World).seq[1] = << << >>, stored[<< >>] >>
       /\ (last.op = "Next" /\ last.n0 = 0 /\ ~last.panic) =>
            last.rkey = << >> /\ last.rval = stored[<< >>]
  /\ (last.op = "Put" /\ last.key = << >>) =>
       Get(World, << >>) = Ret(World, last.val, TRUE)
  /\ \A key \in DOMAIN stored :
       stored[key] = << >> =>
         /\ Get(World, key) = Ret(World, << >>, TRUE)
         /\ LET deleted(r) == r.ok /\ r.val = << >> /\ ~r.w.fault
            IN  deleted(Delete(World, key))
  /\ (last.op = "Get" /\ last.had) => last.ok /\ last.rval = last.old
  /\ (last.op = "Delete" /\ last.had) => last.ok /\ last.rval = last.old

\* a Delete of a key stored with the empty value, on a tree that also
\* holds the empty key
C15_Witness ==
  /\ last.op = "Delete" /\ last.had /\ last.old = << >> /\ last.ok
  /\ Has(<< >>)
  /\ \E key \in DOMAIN stored : stored[key] = << >>
  /\ NumStored >= 3

\* C16: a Put of a key with the value it is already stored with returns
\* that value and true and leaves the tree as it was (every node, root,
\* leftmost, size); so after any Put(k, v) a second Put(k, v) returns
\* (v, true) and changes nothing.
C16_RepeatedPutChangesNothing ==
  [][last'.op = "Put" =>
       /\ Put(World', last'.key, last'.val) = Ret(World', last'.val, TRUE)
       /\ (last'.had /\ last'.old = last'.val) =>
            /\ last'.ok
            /\ last'.rval = last'.val
            /\ ~last'.panic
            /\ last'.ev = {}
            /\ UNCHANGED <<treeVars, stored>>]_vars

C16_Witness ==
  /\ last.op = "Put" /\ last.had /\ last.old = last.val /\ last.ok
  /\ last.val # << >>
  /\ ThreeLevels

\* C17: every Get, Put and Delete returns: no loop of the call (the descent
\* to the leaf, the upward split propagation, the rebalancing, the pass
\* that re-derives the separators) fails to end and none ends in a fault;
\* ForEach ends after visiting exactly Size() entries.
C17_CallsTerminate ==
  /\ last.op \in {"Get", "Put", "Delete"} => ~last.diverged /\ ~last.panic
  /\ last.op = "ForEach" =>
       ~last.diverged /\ Len(last.seq) = Size(World)
  /\ ForEach(World).ok

\* a Delete that replaced a separator, merged leaves and lowered the tree
C17_Witness ==
  /\ last.op = "Delete" /\ last.ok
  /\ "reindex" \in last.ev
  /\ "rootCollapse" \in last.ev
  /\ \E e \in last.ev : e \in {"internalMergeLeft", "internalMergeRight"}

\* C18: a Put or a Delete of a key changes the result of Get for no other
\* key: a key stored before is found after with the same value and a key
\* absent before is absent after, whatever splits, borrows, merges and
\* root changes the call made.
C18_OtherKeysKeepTheirResult ==
  [][last'.op \in {"Put", "Delete"} =>
       \A key \in KeysOf(order) \ {last'.key} :
         /\ Get(World', key).val = Get(World, key).val
         /\ Get(World', key).ok = Get(World, key).ok
         /\ ~Get(World', key).w.fault
         /\ Get(World, key).ok <=> Has(key)]_vars

\* a Delete that merged leaves and lowered the tree while other keys were
\* stored and others absent
C18_Witness ==
  /\ last.op = "Delete" /\ last.ok
  /\ "rootCollapse" \in last.ev
  /\ \E e \in last.ev : e \in {"leafMergeLeft", "leafMergeRight"}
  /\ NumStored >= 3
  /\ \E key \in KeysOf(order) \ {last.key} : ~Has(key)

\* the tree New returns for the order of the tree
FreshWorld ==
  [World EXCEPT !.root = Nil, !.leftmost = Nil, !.size = 0, !.nodes = << >>]

\* C19: a tree whose last key has been deleted answers every call as a
\* newly constructed tree of the same order does: Size is 0, Get and
\* Delete of any key return (nil, false) and change nothing, a new iterator
\* has no next element and its Next panics, ForEach visits nothing, and a
\* Put returns what it returns on the new tree and leaves the very same
\* tree behind - from where the two cannot differ any more.
C19_EmptiedTreeIsLikeNew ==
  (constructed /\ root = Nil) =>
    /\ Size(World) = Size(FreshWorld)
    /\ \A key \in KeysOf(order) :
         /\ Get(World, key) = Ret(World, << >>, FALSE)
         /\ Get(FreshWorld, key) = Ret(FreshWorld, << >>, FALSE)
         /\ Delete(World, key) = Ret(World, << >>, FALSE)
         /\ Delete(FreshWorld, key) = Ret(FreshWorld, << >>, FALSE)
    /\ ~HasNext(World, Iterator(World))
    /\ ~HasNext(FreshWorld, Iterator(FreshWorld))
    /\ IterNext(World, Iterator(World)).panic
    /\ IterNext(FreshWorld, Iterator(FreshWorld)).panic
    /\ ForEach(World) = ForEach(FreshWorld)
    /\ ForEach(World) = [seq |-> << >>, ok |-> TRUE]
    /\ \A key \in KeysOf(order) : \A value \in ValuesOf(key) :
         LET same(r, f) ==
               /\ r.val = f.val
               /\ r.ok = f.ok
               /\ Collect(r.w, << >>).w = Collect(f.w, << >>).w
         IN  same(Put(World, key, value), Put(FreshWorld, key, value))
    /\ last.op = "HasNext" => ~last.ok
    /\ last.op = "Size" => last.n = 0
    /\ last.op = "ForEach" => last.seq = << >> /\ ~last.diverged
    /\ last.op \in {"Get", "Delete"} /\ ~last.had =>
         ~last.ok /\ last.rval = << >> /\ ~last.panic

\* HasNext of an iterator created on a tree that was emptied by Delete and
\* still refers to the leaf it had
C19_Witness ==
  /\ constructed
  /\ root = Nil
  /\ leftmost # Nil
  /\ hist = "mixed"
  /\ last.op = "HasNext" /\ ~last.ok

\* the nodes of the subtree of id, id included
RECURSIVE Under(_, _, _)
Under(w, id, fuel) ==
  IF ~IsNode(w, id) \/ fuel = 0 THEN {}
  ELSE IF isLeaf(w, id) THEN {id}
  ELSE {id} \cup UNION { Under(w, asNode(ptrAt(w, id, i)), fuel - 1) :
                           i \in 0..keyNumOf(w, id) }

\* the keys stored in the leaves of the subtree of id
KeysUnder(w, id) ==
  UNION { { keyAt(w, n, i) : i \in 0..(keyNumOf(w, n) - 1) } :
            n \in { m \in Under(w, id, Cardinality(DOMAIN w.nodes)) :
                      isLeaf(w, m) } }

\* C20: after every Put and every Delete each separator of each internal
\* node of the tree is the smallest key stored under the child to its
\* right.
C20_SeparatorIsMinOfRightSubtree ==
  (root # Nil) =>
    \A id \in Under(World, root, Cardinality(DOMAIN nodes)) :
      ~isLeaf(World, id) =>
        \A i \in 0..(keyNumOf(World, id) - 1) :
          LET below == KeysUnder(World, asNode(ptrAt(World, id, i + 1)))
          IN  /\ keyAt(World, id, i) \in below
              /\ \A key \in below : compare(keyAt(World, id, i), key) <= 0

\* a Delete that replaced a separator and borrowed between internal nodes,
\* leaving a tree of three levels
C20_Witness ==
  /\ last.op = "Delete" /\ last.ok
  /\ "reindex" \in last.ev
  /\ \E e \in last.ev : e \in {"internalBorrowLeft", "internalBorrowRight"}
  /\ ThreeLevels

\* the nodes of the tree: those reachable from the root through children
TreeNodes ==
  IF root = Nil THEN {} ELSE Under(World, root, Cardinality(DOMAIN nodes))

\* C21: after every Put and every Delete every node of the tree other than
\* the root holds at least ceil(order / 2) - 1 and at most order - 1 keys,
\* and the root of a tree that is not empty holds at least 1 and at most
\* order - 1 keys.
C21_NodesKeepTheirOccupancy ==
  /\ constructed => minKeyNum = (order + 1) \div 2 - 1
  /\ \A id \in TreeNodes :
       /\ keyNumOf(World, id) <= order - 1
       /\ id # root => keyNumOf(World, id) >= (order + 1) \div 2 - 1
       /\ id = root => keyNumOf(World, id) >= 1
  /\ root # Nil => root \in TreeNodes

\* after a Delete that borrowed for a leaf, a tree of three levels with a
\* node at the least and a node at the greatest number of keys
C21_Witness ==
  /\ last.op = "Delete" /\ last.ok
  /\ \E e \in last.ev : e \in {"leafBorrowLeft", "leafBorrowRight"}
  /\ ThreeLevels
  /\ \E id \in TreeNodes \ {root} : keyNumOf(World, id) = minKeyNum
  /\ \E id \in TreeNodes : keyNumOf(World, id) = order - 1

\* the leaves met from the leaf id on along the next references
RECURSIVE chainFrom(_, _, _, _)
chainFrom(w, id, acc, fuel) ==
  IF ~IsNode(w, id) \/ fuel = 0 THEN acc
  ELSE chainFrom(w, asNode(next(w, id)), Append(acc, id), fuel - 1)

\* the leaf chain: the leaves met from leftmost on
LeafChain == chainFrom(World, leftmost, << >>, Cardinality(DOMAIN nodes) + 1)

\* the keys of the leaves of chain, in the order of the chain
RECURSIVE keysAlong(_, _)
keysAlong(w, chain) ==
  IF chain = << >> THEN << >>
  ELSE [i \in 1..keyNumOf(w, Head(chain)) |-> keyAt(w, Head(chain), i - 1)]
         \o keysAlong(w, Tail(chain))

\* the keys of seq strictly ascend
Ascending(seq) ==
  \A i \in 1..(Len(seq) - 1) : compare(seq[i], seq[i + 1]) < 0

\* the keys of every node of the tree strictly ascend
NodesAscend ==
  \A id \in TreeNodes :
    Ascending([i \in 1..keyNumOf(World, id) |-> keyAt(World, id, i - 1)])

\* the leaf chain visits exactly the leaves of the tree, each once, and its
\* keys strictly ascend and are exactly the stored keys
ChainSpansTree ==
  /\ \A i, j \in 1..Len(LeafChain) : LeafChain[i] = LeafChain[j] => i = j
  /\ { LeafChain[i] : i \in 1..Len(LeafChain) }
       = { id \in TreeNodes : isLeaf(World, id) }
  /\ Ascending(keysAlong(World, LeafChain))
  /\ { keysAlong(World, LeafChain)[i] :
         i \in 1..Len(keysAlong(World, LeafChain)) } = DOMAIN stored

\* C22: after every Put and every Delete the keys of every node strictly
\* ascend, and the leaf chain from leftmost along the next references
\* visits every leaf reachable from the root exactly once and no other
\* leaf, in globally strictly ascending key order, and holds exactly the
\* stored keys.
C22_SortedNodesAndLeafChain ==
  constructed => NodesAscend /\ ChainSpansTree

\* the same while the tree holds a key
C22_HoldsWhileNotEmpty ==
  (constructed /\ root # Nil) => NodesAscend /\ ChainSpansTree

\* the depths at which the paths from id through children end in a leaf;
\* -1 for a path that ends at a missing child
RECURSIVE LeafDepths(_, _, _, _)
LeafDepths(w, id, depth, fuel) ==
  IF ~IsNode(w, id) \/ fuel = 0 THEN {-1}
  ELSE IF isLeaf(w, id) THEN {depth}
  ELSE UNION { LeafDepths(w, asNode(ptrAt(w, id, i)), depth + 1, fuel - 1) :
                 i \in 0..keyNumOf(w, id) }

\* the number of levels of the tree: 0 for the empty tree, 1 for a root
\* that is a leaf
Height(w) ==
  IF w.root = Nil THEN 0
  ELSE 1 + CHOOSE d \in LeafDepths(w, w.root, 0, Cardinality(DOMAIN w.nodes)) :
             \A e \in LeafDepths(w, w.root, 0, Cardinality(DOMAIN w.nodes)) :
               d >= e

\* C23: after every Put and every Delete all leaves are at the same depth
\* from the root.
C23_LeavesAtSameDepth ==
  root # Nil =>
    /\ Cardinality(LeafDepths(World, root, 0, Cardinality(DOMAIN nodes))) = 1
    /\ -1 \notin LeafDepths(World, root, 0, Cardinality(DOMAIN nodes))

\* a tree of three levels that a Put has just grown by a level
C23_Witness ==
  /\ last.op = "Put"
  /\ "newRoot" \in last.ev
  /\ "internalSplit" \in last.ev
  /\ ThreeLevels
  /\ Height(World) = 3

\* the child slots of the tree: an internal node and a position in it
ChildSlots ==
  { <<id, i>> : id \in { n \in TreeNodes : ~isLeaf(World, n) },
                i \in 0..(order - 1) }

\* C24: after every Put and every Delete every internal node of the tree
\* has exactly keyNum + 1 children, in its first keyNum + 1 pointer slots,
\* and nothing in the slots behind them; the parent of each child is that
\* node; no node is the child of two nodes or twice the child of one; the
\* parent of the root is nil.
C24_ParentsAndChildrenAgree ==
  /\ root # Nil => parentOf(World, root) = Nil
  /\ \A s \in ChildSlots :
       IF s[2] <= keyNumOf(World, s[1])
       THEN /\ okNode(ptrAt(World, s[1], s[2]))
            /\ IsNode(World, asNode(ptrAt(World, s[1], s[2])))
            /\ parentOf(World, asNode(ptrAt(World, s[1], s[2]))) = s[1]
       ELSE ptrAt(World, s[1], s[2]) = NilP
  /\ \A s, t \in ChildSlots :
       (/\ s[2] <= keyNumOf(World, s[1])
        /\ t[2] <= keyNumOf(World, t[1])
        /\ ptrAt(World, s[1], s[2]) = ptrAt(World, t[1], t[2])) => s = t

\* a tree of three levels after a Delete that moved a child from one
\* internal node to its sibling
C24_Witness ==
  /\ last.op = "Delete" /\ last.ok
  /\ "internalBorrowLeft" \in last.ev
  /\ ThreeLevels
  /\ Cardinality(ChildSlots) >= 3 * order

\* the separators of the tree: the keys of its internal nodes
Separators ==
  UNION { { keyAt(World, id, i) : i \in 0..(keyNumOf(World, id) - 1) } :
            id \in { n \in TreeNodes : ~isLeaf(World, n) } }

\* C25: after a Delete that returned true the deleted key is a separator
\* of no internal node, and every separator is a stored key: the smallest
\* under the child to its right.
C25_DeletedKeyIsNoSeparator ==
  (last.op = "Delete" /\ last.ok) =>
    /\ \A key \in Separators : compare(key, last.key) # 0
    /\ \A key \in Separators : Has(key)
    /\ C20_SeparatorIsMinOfRightSubtree

\* a Delete of a key that was a separator, whose leaf underflowed and was
\* merged, in a tree that keeps separators
C25_Witness ==
  /\ last.op = "Delete" /\ last.ok
  /\ "reindex" \in last.ev
  /\ \E e \in last.ev : e \in {"leafMergeLeft", "leafMergeRight"}
  /\ Cardinality(Separators) >= 2

\* the leaf reached from id by always following the first child
RECURSIVE FirstLeaf(_, _, _)
FirstLeaf(w, id, fuel) ==
  IF ~IsNode(w, id) \/ fuel = 0 THEN Nil
  ELSE IF isLeaf(w, id) THEN id
  ELSE FirstLeaf(w, asNode(ptrAt(w, id, 0)), fuel - 1)

\* C26: whenever the tree holds a key, leftmost is the first leaf in
\* ascending key order: the leaf reached from the root by always following
\* the first child, which holds the smallest stored key.
C26_LeftmostIsFirstLeaf ==
  root # Nil =>
    /\ leftmost # Nil
    /\ leftmost = FirstLeaf(World, root, Cardinality(DOMAIN nodes))
    /\ isLeaf(World, leftmost)
    /\ Has(keyAt(World, leftmost, 0))
    /\ \A key \in DOMAIN stored : compare(keyAt(World, leftmost, 0), key) <= 0

\* a Delete of the smallest key that merged the leftmost leaf with its
\* right sibling and lowered the tree
C26_Witness ==
  /\ last.op = "Delete" /\ last.ok
  /\ \A key \in DOMAIN stored : compare(last.key, key) < 0
  /\ "leafMergeRight" \in last.ev
  /\ "rootCollapse" \in last.ev
  /\ root # Nil

\* C27: when Delete removes the last key of a tree whose root is a leaf,
\* the tree becomes empty: root is nil and leftmost is nil.
C27_EmptiedTreeHasNoLeftmost ==
  (last.op = "Delete" /\ last.ok /\ last.size0 = 1) =>
    /\ size = 0
    /\ root = Nil
    /\ leftmost = Nil

\* what the code does instead: root is nil and leftmost still refers to
\* the leaf that was the root, which holds no key
C27_LeftmostKeepsOldRoot ==
  (last.op = "Delete" /\ last.ok /\ last.size0 = 1) =>
    /\ size = 0
    /\ root = Nil
    /\ leftmost # Nil
    /\ isLeaf(World, leftmost)
    /\ keyNumOf(World, leftmost) = 0
    /\ next(World, leftmost) = NilP

\* the pairs (key, pointer) a leaf holds, in slot order
leafPairs(w, id) ==
  [i \in 1..keyNumOf(w, id) |-> <<keyAt(w, id, i - 1), ptrAt(w, id, i - 1)>>]

\* the pairs of the leaves of chain, leaf by leaf
leavesAlong(w, chain) == [i \in 1..Len(chain) |-> leafPairs(w, chain[i])]

\* pairs with the pair of k and v put in at the place of k in key order
withPair(pairs, k, v) ==
  LET pos == Cardinality({i \in 1..Len(pairs) : less(pairs[i][1], k)})
  IN  SubSeq(pairs, 1, pos) \o << <<k, ValP(v)>> >>
        \o SubSeq(pairs, pos + 1, Len(pairs))

\* C28: when Put splits a full leaf, the old pairs and the new pair are
\* divided in key order between the old node, which becomes the left leaf
\* with ceil((order-1)/2) keys, and one new right leaf with the rest; no
\* pair is lost or duplicated; left.next is the right leaf and right.next
\* is what left.next was; the leaf chain of the tree is the old chain with
\* the split leaf replaced by the two halves.
C28_LeafSplitDividesInOrder ==
  [][(last'.op = "Put" /\ "leafSplit" \in last'.ev) =>
       LET middle == ceil(order - 1, 2)
           before == leavesAlong(World, LeafChain)
           splits(n, all, at, r) ==
             /\ IsNode(World, n)
             /\ keyNumOf(World, n) = order - 1
             /\ Len(all) = order
             /\ okNode(next(r, n))
             /\ asNode(next(r, n)) \notin DOMAIN nodes
             /\ isLeaf(r, n)
             /\ isLeaf(r, asNode(next(r, n)))
             /\ leafPairs(r, n) = SubSeq(all, 1, middle)
             /\ leafPairs(r, asNode(next(r, n))) = SubSeq(all, middle + 1, order)
             /\ next(r, asNode(next(r, n))) = next(World, n)
             /\ \E i \in 1..Len(LeafChain) : LeafChain[i] = n
             /\ \A after \in {World'}, chain \in {LeafChain'} :
                  leavesAlong(after, chain) =
                    SubSeq(before, 1, at - 1)
                      \o <<SubSeq(all, 1, middle),
                           SubSeq(all, middle + 1, order)>>
                      \o SubSeq(before, at + 1, Len(before))
       IN  \A k \in {last'.key}, v \in {last'.val} :
             \A n \in {findLeaf(World, k)} :
               splits(n, withPair(leafPairs(World, n), k, v),
                      CHOOSE i \in 1..Len(LeafChain) : LeafChain[i] = n,
                      Put(World, k, v).w)]_vars

\* a Put into an order-3 tree has split a leaf that had a next leaf, and
\* the new key went into the left half
C28_Witness ==
  /\ last.op = "Put"
  /\ "leafSplit" \in last.ev
  /\ order = 3
  /\ LET n == findLeaf(World, last.key)
     IN  /\ keyNumOf(World, n) = 1
         /\ okNode(next(World, n))
         /\ keyNumOf(World, asNode(next(World, n))) = 2
         /\ okNode(next(World, asNode(next(World, n))))

\* the keys a node holds
nodeKeys(w, id) == { keyAt(w, id, i) : i \in 0..(keyNumOf(w, id) - 1) }

\* the keys held by the internal nodes of the heap of w
internalKeys(w) ==
  UNION { nodeKeys(w, id) : id \in { n \in DOMAIN w.nodes : ~isLeaf(w, n) } }

\* along the propagation loop of putIntoLeaf from parent on, carrying key
\* with the halves l and r: every split of a full internal node promotes a
\* key that is in neither of its halves, the halves and the promoted key
\* hold exactly the keys the node held plus key, and in the world final
\* that the call leaves the halves still lack the promoted key while an
\* internal node holds it
RECURSIVE promotedKeysLeaveBothHalves(_, _, _, _, _, _, _)
promotedKeysLeaveBothHalves(w, parent, key, l, r, final, fuel) ==
  IF parent = Nil \/ fuel = 0 \/ keyNumOf(w, parent) < lenKeys(w, parent)
  THEN TRUE
  ELSE LET promotes(s) ==
             /\ s.key \notin nodeKeys(s.w, s.left)
             /\ s.key \notin nodeKeys(s.w, s.right)
             /\ nodeKeys(s.w, s.left) \cup nodeKeys(s.w, s.right) \cup {s.key}
                  = nodeKeys(w, parent) \cup {key}
             /\ keyNumOf(s.w, s.left) + keyNumOf(s.w, s.right) + 1
                  = keyNumOf(w, parent) + 1
             /\ s.key \notin nodeKeys(final, s.left)
             /\ s.key \notin nodeKeys(final, s.right)
             /\ s.key \in internalKeys(final)
             /\ promotedKeysLeaveBothHalves(s.w, parentOf(s.w, parent), s.key,
                                            s.left, s.right, final, fuel - 1)
       IN  promotes(putIntoParentAndSplit(w, parent, key, l, r))

\* C29: splits are right-biased.  The separator a leaf split hands to the
\* parent is the first key of the right leaf and stays stored in that leaf;
\* the key an internal split promotes is removed from both halves and is
\* in neither of them.
C29_SplitsAreRightBiased ==
  [][(last'.op = "Put" /\ "leafSplit" \in last'.ev) =>
       LET n(k) == findLeaf(World, k)
           at(k) == leafInsertPosFrom(World, n(k), k, 0).pos
           biased(s, final) ==
             /\ keyNumOf(final, s.right) >= 1
             /\ isLeaf(final, s.right)
             /\ keyAt(final, s.right, 0) = keyAt(s.w, s.right, 0)
             /\ keyAt(final, s.right, 0) \in internalKeys(final)
             /\ keyAt(final, s.right, 0) \notin nodeKeys(final, s.left)
             \* the parent holds it left of the reference to the right leaf,
             \* unless the parent was split and promoted it
             /\ \E j \in 0..keyNumOf(final, parentOf(final, s.right)) :
                  /\ ptrAt(final, parentOf(final, s.right), j) = NodeP(s.right)
                  /\ IF j > 0
                     THEN keyAt(final, parentOf(final, s.right), j - 1)
                            = keyAt(final, s.right, 0)
                     ELSE "internalSplit" \in last'.ev
             /\ promotedKeysLeaveBothHalves(s.w, parentOf(World, s.left),
                  keyAt(s.w, s.right, 0), s.left, s.right, final,
                  Cardinality(DOMAIN final.nodes))
             \* and so in the tree the call leaves
             /\ keyAt(final, s.right, 0) \in Separators'
             /\ \A after \in {World'}, chain \in {LeafChain'} :
                  InSeq(keyAt(final, s.right, 0), keysAlong(after, chain))
       IN  \A k \in {last'.key}, v \in {last'.val} :
             \A s \in {putIntoLeafAndSplit(World, n(k), at(k), k, v)},
                final \in {Put(World, k, v).w} :
               biased(s, final)]_vars

\* a Put has split a leaf and an internal node of an order-3 tree: a key of
\* the root is in no other internal node, and every other separator is the
\* first key of a leaf
C29_Witness ==
  /\ last.op = "Put"
  /\ {"leafSplit", "internalSplit"} \subseteq last.ev
  /\ order = 3
  /\ ThreeLevels
  /\ \A i \in 0..(keyNumOf(World, root) - 1) :
       \A id \in TreeNodes \ {root} :
         ~isLeaf(World, id) => keyAt(World, root, i) \notin nodeKeys(World, id)

\* the nodes from id up to the root along the parent references
RECURSIVE pathUp(_, _, _)
pathUp(w, id, fuel) ==
  IF ~IsNode(w, id) \/ fuel = 0 THEN << >>
  ELSE <<id>> \o pathUp(w, parentOf(w, id), fuel - 1)

\* how many nodes at the start of path are full
RECURSIVE fullPrefix(_, _)
fullPrefix(w, path) ==
  IF path = << >> \/ keyNumOf(w, Head(path)) < lenKeys(w, Head(path)) THEN 0
  ELSE 1 + fullPrefix(w, Tail(path))

\* C30: a Put changes the height of the tree by 0 or +1.  A new root is
\* made only when the split has propagated past a node without parent, that
\* is when the leaf and all its ancestors were full; it then holds exactly
\* one separator and the two halves of the old root as its only children.
\* Propagation stops at the first ancestor with spare capacity: the full
\* nodes below it are split, it takes one key, and no node above it
\* changes.
C30_PutGrowsHeightByAtMostOne ==
  [][(last'.op = "Put") =>
       LET grows(before, after, path, u, final) ==
             /\ after - before \in {0, 1}
             /\ Height(final) = after
             /\ last'.had => after = before /\ last'.ev = {}
             /\ (~last'.had /\ root # Nil) =>
                  /\ path # << >>
                  /\ path[Len(path)] = root
                  /\ ("leafSplit" \in last'.ev) <=> (u >= 1)
                  /\ ("internalSplit" \in last'.ev) <=> (u >= 2)
                  /\ ("newRoot" \in last'.ev) <=> (u = Len(path))
                  /\ Cardinality(DOMAIN final.nodes \ DOMAIN nodes)
                       = IF u = Len(path) THEN u + 1 ELSE u
                  /\ IF u = Len(path)
                     THEN /\ after = before + 1
                          /\ final.root \notin DOMAIN nodes
                          /\ ~isLeaf(final, final.root)
                          /\ parentOf(final, final.root) = Nil
                          /\ keyNumOf(final, final.root) = 1
                          /\ ptrAt(final, final.root, 0) = NodeP(root)
                          /\ okNode(ptrAt(final, final.root, 1))
                          /\ asNode(ptrAt(final, final.root, 1))
                               \notin DOMAIN nodes \cup {final.root}
                          /\ \A i \in 2..(order - 1) :
                               ptrAt(final, final.root, i) = NilP
                          /\ \A i \in 0..1 :
                               parentOf(final,
                                        asNode(ptrAt(final, final.root, i)))
                                 = final.root
                          /\ keyNumOf(World', root') = 1
                     ELSE /\ after = before
                          /\ final.root = root
                          /\ keyNumOf(final, path[u + 1])
                               = keyNumOf(World, path[u + 1]) + 1
                          /\ \A i \in (u + 2)..Len(path) :
                               final.nodes[path[i]] = nodes[path[i]]
       IN  \A k \in {last'.key}, v \in {last'.val} :
             \A path \in {pathUp(World, findLeaf(World, k),
                                 Cardinality(DOMAIN nodes))} :
               \A after \in {World'} :
                 grows(Height(World), Height(after), path,
                       fullPrefix(World, path), Put(World, k, v).w)]_vars

\* a Put into a three-level tree has split a leaf and stopped at its
\* parent, which had room: the height is still three and the root holds
\* what it held
C30_Witness ==
  /\ last.op = "Put"
  /\ ~last.had
  /\ last.ev = {"leafSplit"}
  /\ Height(World) = 3
  /\ keyNumOf(World, parentOf(World, findLeaf(World, last.key))) >= 2

\* the sibling left of x under its parent, Nil if x is the first child
leftSiblingOf(w, x) ==
  LET at(p, i) == IF i >= 1 THEN asNode(ptrAt(w, p, i - 1)) ELSE Nil
  IN  at(parentOf(w, x), pointerPositionOf(w, parentOf(w, x), x))

\* the sibling right of x under its parent, Nil if x is the last child
rightSiblingOf(w, x) ==
  LET at(p, i) == IF i >= 0 /\ i < keyNumOf(w, p)
                  THEN asNode(ptrAt(w, p, i + 1)) ELSE Nil
  IN  at(parentOf(w, x), pointerPositionOf(w, parentOf(w, x), x))

\* x is a node that holds more than minKeyNum keys
canLend(w, x) == x # Nil /\ keyNumOf(w, x) > w.minKeyNum

\* what the claim lets a node x do that is about to lose one key, and then
\* its parent if x is merged: nothing for the root or while x keeps
\* minKeyNum keys, else borrow left, else borrow right, else merge
RECURSIVE rebalancePlan(_, _, _)
rebalancePlan(w, x, fuel) ==
  IF fuel = 0 \/ parentOf(w, x) = Nil \/ keyNumOf(w, x) - 1 >= w.minKeyNum
  THEN << >>
  ELSE IF canLend(w, leftSiblingOf(w, x)) THEN <<"BorrowLeft">>
  ELSE IF canLend(w, rightSiblingOf(w, x)) THEN <<"BorrowRight">>
  ELSE IF leftSiblingOf(w, x) # Nil
       THEN <<"MergeLeft">> \o rebalancePlan(w, parentOf(w, x), fuel - 1)
  ELSE <<"MergeRight">> \o rebalancePlan(w, parentOf(w, x), fuel - 1)

leafTag ==
  [BorrowLeft |-> "leafBorrowLeft", BorrowRight |-> "leafBorrowRight",
   MergeLeft |-> "leafMergeLeft", MergeRight |-> "leafMergeRight"]

internalTag ==
  [BorrowLeft |-> "internalBorrowLeft", BorrowRight |-> "internalBorrowRight",
   MergeLeft |-> "internalMergeLeft", MergeRight |-> "internalMergeRight"]

RebalanceTags ==
  { leafTag[t] : t \in DOMAIN leafTag }
    \cup { internalTag[t] : t \in DOMAIN internalTag }

\* the steps as the events of a call: the first step is taken by a
\* leaf, the later ones by internal nodes
planTags(steps) ==
  { leafTag[steps[i]] : i \in {1} \cap DOMAIN steps }
    \cup { internalTag[steps[i]] : i \in DOMAIN steps \ {1} }

\* how many of the steps are merges
mergesOf(steps) ==
  Cardinality({ i \in DOMAIN steps : steps[i] \in {"MergeLeft", "MergeRight"} })

\* C31: a node that underflows during Delete borrows from its left sibling
\* if that exists and holds more than minKeyNum keys, otherwise from its
\* right sibling under the same condition, and is merged only when neither
\* can lend.  A borrow moves exactly one entry and leaves the number of
\* nodes and the height of the tree as they are: a Delete discards one node
\* per merge (and the root it collapses) and none by borrowing.
C31_BorrowBeforeMerge ==
  [][(last'.op = "Delete" /\ last'.ok) =>
       LET borrows(path, steps, final, after) ==
             LET x == path[Len(steps)]
                 lender == IF steps[Len(steps)] = "BorrowLeft"
                           THEN leftSiblingOf(World, x)
                           ELSE rightSiblingOf(World, x)
                 lent == keyNumOf(World, lender)
             IN
             /\ last'.ev \cap RebalanceTags = planTags(steps)
             /\ Cardinality(DOMAIN after.nodes)
                  = Cardinality(DOMAIN nodes) - mergesOf(steps)
                      - (IF "rootCollapse" \in last'.ev THEN 1 ELSE 0)
             /\ (mergesOf(steps) = 0 /\ "emptied" \notin last'.ev) =>
                  /\ DOMAIN final.nodes = DOMAIN nodes
                  /\ Height(after) = Height(World)
             /\ (steps # << >> /\ mergesOf(steps) < Len(steps)) =>
                  /\ "rootCollapse" \notin last'.ev
                  /\ Height(after) = Height(World)
                  /\ IsNode(final, lender)
                  /\ keyNumOf(final, lender) = lent - 1
                  /\ lent - 1 >= minKeyNum
                  /\ keyNumOf(final, x) = keyNumOf(World, x)
                  /\ keyNumOf(final, x) = minKeyNum
                  /\ (Len(steps) = 1 /\ steps[1] = "BorrowLeft") =>
                       /\ leafPairs(final, x)[1] = leafPairs(World, lender)[lent]
                       /\ leafPairs(final, lender)
                            = SubSeq(leafPairs(World, lender), 1, lent - 1)
                  /\ (Len(steps) = 1 /\ steps[1] = "BorrowRight") =>
                       /\ leafPairs(final, x)[minKeyNum]
                            = leafPairs(World, lender)[1]
                       /\ leafPairs(final, lender)
                            = Tail(leafPairs(World, lender))
                  /\ (Len(steps) > 1 /\ steps[Len(steps)] = "BorrowLeft") =>
                       /\ ptrAt(final, x, 0) = ptrAt(World, lender, lent)
                       /\ parentOf(final, asNode(ptrAt(final, x, 0))) = x
                  /\ (Len(steps) > 1 /\ steps[Len(steps)] = "BorrowRight") =>
                       /\ ptrAt(final, x, minKeyNum) = ptrAt(World, lender, 0)
                       /\ parentOf(final, asNode(ptrAt(final, x, minKeyNum)))
                            = x
       IN  \A k \in {last'.key} :
             \A path \in {pathUp(World, findLeaf(World, k),
                                 Cardinality(DOMAIN nodes))} :
               \A final \in {Delete(World, k).w}, after \in {World'} :
                 borrows(path,
                         rebalancePlan(World, path[1],
                                       Cardinality(DOMAIN nodes)),
                         final, after)]_vars

\* a Delete has made a leaf underflow whose left sibling is at minKeyNum:
\* the leaf has borrowed from its right sibling
C31_Witness ==
  /\ last.op = "Delete"
  /\ last.ok
  /\ "leafBorrowRight" \in last.ev
  /\ LET x == findLeaf(World, last.key)
     IN  /\ leftSiblingOf(World, x) # Nil
         /\ keyNumOf(World, leftSiblingOf(World, x)) = minKeyNum
         /\ keyNumOf(World, x) = minKeyNum

\* the keys and the child references a node holds, in slot order
keySeq(w, id) == [j \in 1..keyNumOf(w, id) |-> keyAt(w, id, j - 1)]
childrenOf(w, id) == [j \in 1..(keyNumOf(w, id) + 1) |-> ptrAt(w, id, j - 1)]

\* seq without its j-th element
dropAt(seq, j) == SubSeq(seq, 1, j - 1) \o SubSeq(seq, j + 1, Len(seq))

\* the pairs of a leaf without the pair of key k
RECURSIVE pairsWithout(_, _)
pairsWithout(pairs, k) ==
  IF pairs = << >> THEN << >>
  ELSE IF compare(Head(pairs)[1], k) = 0 THEN Tail(pairs)
  ELSE <<Head(pairs)>> \o pairsWithout(Tail(pairs), k)

\* keys without the key k
RECURSIVE keysWithout(_, _)
keysWithout(keys, k) ==
  IF keys = << >> THEN << >>
  ELSE IF compare(Head(keys), k) = 0 THEN Tail(keys)
  ELSE <<Head(keys)>> \o keysWithout(Tail(keys), k)

\* got is the key sequence want, but for the places where want holds k
\* (removeFromIndex replaces k in the index after the rebalancing)
sameBut(got, want, k) ==
  /\ Len(got) = Len(want)
  /\ \A j \in DOMAIN want : got[j] = want[j] \/ compare(want[j], k) = 0

\* C32: when a Delete merges, the underflowing node is merged into its left
\* sibling if it has one, else its right sibling is merged into it.  The
\* surviving node holds all entries of both (for internal nodes with the
\* separator of the parent between them); the parent loses exactly that
\* separator and the reference to the discarded node; the leaf chain skips
\* the discarded leaf.
C32_MergeKeepsAllEntries ==
  [][(last'.op = "Delete" /\ last'.ok) =>
       LET merges(k, path, steps, final, after) ==
             LET right(i) == IF steps[i] = "MergeLeft" THEN path[i]
                             ELSE rightSiblingOf(World, path[i])
                 left(i) == IF steps[i] = "MergeLeft"
                            THEN leftSiblingOf(World, path[i])
                            ELSE path[i]
                 at(i) == pointerPositionOf(World, path[i + 1], right(i))
                 \* what node y at level i holds when its turn comes
                 kids(y, i) ==
                   IF i > 1 /\ y = path[i]
                   THEN dropAt(childrenOf(World, y), at(i - 1) + 1)
                   ELSE childrenOf(World, y)
                 keys(y, i) ==
                   IF i > 1 /\ y = path[i]
                   THEN dropAt(keySeq(World, y), at(i - 1))
                   ELSE keySeq(World, y)
                 pairs(y) ==
                   IF y = path[1] THEN pairsWithout(leafPairs(World, y), k)
                   ELSE leafPairs(World, y)
                 merged(i) ==
                   /\ left(i) # Nil /\ right(i) # Nil
                   /\ (steps[i] = "MergeRight")
                        <=> (leftSiblingOf(World, path[i]) = Nil)
                   /\ at(i) >= 1
                   /\ ptrAt(World, path[i + 1], at(i) - 1) = NodeP(left(i))
                   \* the survivor holds the entries of both
                   /\ i = 1 =>
                        /\ isLeaf(final, left(i))
                        /\ leafPairs(final, left(i))
                             = pairs(left(i)) \o pairs(right(i))
                        /\ next(final, left(i)) = next(World, right(i))
                   /\ i > 1 =>
                        /\ ~isLeaf(final, left(i))
                        /\ childrenOf(final, left(i))
                             = kids(left(i), i) \o kids(right(i), i)
                        /\ sameBut(keySeq(final, left(i)),
                                   keys(left(i), i)
                                     \o <<keyAt(World, path[i + 1], at(i) - 1)>>
                                     \o keys(right(i), i),
                                   k)
                        /\ \A j \in 0..keyNumOf(final, left(i)) :
                             parentOf(final, asNode(ptrAt(final, left(i), j)))
                               = left(i)
                   \* the discarded node is out of the tree
                   /\ \A id \in Under(final, final.root,
                                      Cardinality(DOMAIN final.nodes)) :
                        /\ id # right(i)
                        /\ \A j \in 0..(lenPointers(final, id) - 1) :
                             ptrAt(final, id, j) # NodeP(right(i))
                   \* the parent, if it takes no step of its own
                   /\ (i = Len(steps) /\ "rootCollapse" \notin last'.ev) =>
                        /\ childrenOf(final, path[i + 1])
                             = kids(path[i + 1], i + 1)
                        /\ sameBut(keySeq(final, path[i + 1]),
                                   keys(path[i + 1], i + 1), k)
                        /\ keyNumOf(final, path[i + 1])
                             = keyNumOf(World, path[i + 1]) - 1
                   /\ (i = Len(steps) /\ "rootCollapse" \in last'.ev) =>
                        /\ keyNumOf(World, path[i + 1]) = 1
                        /\ keyNumOf(final, path[i + 1]) = 0
                        /\ final.root = left(i)
                   \* the parent, if it borrows next
                   /\ (i < Len(steps) /\ steps[i + 1] = "BorrowLeft") =>
                        /\ Tail(childrenOf(final, path[i + 1]))
                             = kids(path[i + 1], i + 1)
                   /\ (i < Len(steps) /\ steps[i + 1] = "BorrowRight") =>
                        /\ SubSeq(childrenOf(final, path[i + 1]), 1,
                                  keyNumOf(World, path[i + 1]))
                             = kids(path[i + 1], i + 1)
             IN
             /\ \A i \in DOMAIN steps :
                  steps[i] \in {"MergeLeft", "MergeRight"} => merged(i)
             /\ (mergesOf(steps) > 0) =>
                  \A chain \in {chainFrom(after, after.leftmost, << >>,
                                          Cardinality(DOMAIN after.nodes) + 1)} :
                    /\ Len(chain) = Len(LeafChain) - 1
                    /\ keysAlong(after, chain)
                         = keysWithout(keysAlong(World, LeafChain), k)
                    /\ ~InSeq(right(1),
                              chainFrom(final, final.leftmost, << >>,
                                        Cardinality(DOMAIN final.nodes) + 1))
       IN  \A k \in {last'.key} :
             \A path \in {pathUp(World, findLeaf(World, k),
                                 Cardinality(DOMAIN nodes))} :
               \A final \in {Delete(World, k).w}, after \in {World'} :
                 merges(k, path,
                        rebalancePlan(World, path[1], Cardinality(DOMAIN nodes)),
                        final, after)]_vars

\* a Delete has merged a leaf and then an internal node: the tree has lost
\* a level and the root holds the separator that was pulled down
C32_Witness ==
  /\ last.op = "Delete"
  /\ last.ok
  /\ "leafMergeLeft" \in last.ev
  /\ "internalMergeRight" \in last.ev
  /\ "rootCollapse" \in last.ev
  /\ root # Nil
  /\ ~isLeaf(World, root)
  /\ keyNumOf(World, root) = 2

\* C33: a Delete changes the height of the tree by 0 or -1.  When the
\* rebalancing reaches an internal root that ends with zero keys, its sole
\* remaining child becomes the root and the parent reference of that child
\* is cleared; the root is never left as an internal node without keys.
C33_DeleteShrinksHeightByAtMostOne ==
  [][(last'.op = "Delete") =>
       LET shrinks(path, steps, final, after) ==
             /\ Height(after) - Height(World) \in {0, -1}
             /\ (after.root # Nil /\ ~isLeaf(after, after.root)) =>
                  keyNumOf(after, after.root) >= 1
             /\ ~last'.ok => (last'.ev = {} /\ Height(after) = Height(World))
             /\ (last'.ok /\ root # Nil) =>
                  /\ ("rootCollapse" \in last'.ev) <=>
                       /\ Len(path) >= 2
                       /\ mergesOf(steps) = Len(path) - 1
                       /\ keyNumOf(World, root) = 1
                  /\ ("emptied" \in last'.ev) <=>
                       (Len(path) = 1 /\ keyNumOf(World, root) = 1)
                  /\ IF "rootCollapse" \in last'.ev
                     THEN /\ Height(after) = Height(World) - 1
                          /\ ~isLeaf(World, root)
                          /\ keyNumOf(final, root) = 0
                          /\ ptrAt(final, root, 0) = NodeP(final.root)
                          /\ \A j \in 1..(order - 1) :
                               ptrAt(final, root, j) = NilP
                          /\ final.root # root
                          /\ final.root \in DOMAIN nodes
                          /\ parentOf(final, final.root) = Nil
                          /\ parentOf(after, after.root) = Nil
                          /\ root \notin Under(final, final.root,
                                               Cardinality(DOMAIN final.nodes))
                     ELSE IF "emptied" \in last'.ev
                     THEN /\ Height(World) = 1
                          /\ Height(after) = 0
                          /\ final.root = Nil
                     ELSE /\ final.root = root
                          /\ Height(after) = Height(World)
       IN  \A k \in {last'.key} :
             \A path \in {pathUp(World, findLeaf(World, k),
                                 Cardinality(DOMAIN nodes))} :
               \A final \in {Delete(World, k).w}, after \in {World'} :
                 shrinks(path,
                         IF path = << >> THEN << >>
                         ELSE rebalancePlan(World, path[1],
                                            Cardinality(DOMAIN nodes)),
                         final, after)]_vars

\* a Delete has merged up to the root of a three-level tree: the tree has
\* two levels now and its root, an internal node, has no parent
C33_Witness ==
  /\ last.op = "Delete"
  /\ last.ok
  /\ {"internalMergeLeft", "rootCollapse"} \subseteq last.ev
  /\ Height(World) = 2
  /\ parentOf(World, root) = Nil
  /\ keyNumOf(World, root) = 2

\* C34: HasNext returns true iff the leaf reference of the iterator is not
\* nil and its index is below the key count of that leaf, and changes
\* nothing.  Next returns the entry at the index and advances the index;
\* when the index reaches the key count of the leaf the iterator moves to
\* the next leaf with index 0, or to no leaf when there is no next leaf.
C34_HasNextAndNextFollowTheLeaves ==
  [][/\ (last'.op = "HasNext") =>
          \A it \in {iters[last'.it]} :
            /\ last'.ok <=> /\ it.next # Nil
                            /\ it.i < nodes[it.next].keyNum
            /\ UNCHANGED <<iterVars, treeVars>>
     /\ (last'.op = "Next" /\ last'.had) =>
          \A it \in {iters[last'.it]} :
            \A leaf \in {nodes[it.next]} :
              /\ last'.ok
              /\ ~last'.panic
              /\ last'.rkey = leaf.keys[it.i + 1]
              /\ leaf.pointers[it.i + 1] = ValP(last'.rval)
              /\ UNCHANGED treeVars
              /\ \A j \in DOMAIN iters \ {last'.it} : iters'[j] = iters[j]
              /\ iters'[last'.it].live
              /\ IF it.i + 1 < leaf.keyNum
                 THEN /\ iters'[last'.it].next = it.next
                      /\ iters'[last'.it].i = it.i + 1
                 ELSE /\ iters'[last'.it].i = 0
                      /\ leaf.pointers[Len(leaf.pointers)]
                           = IF iters'[last'.it].next = Nil THEN NilP
                             ELSE NodeP(iters'[last'.it].next)]_vars

\* a Next has returned the last entry of a leaf and moved the iterator to
\* the start of the next leaf
C34_Witness ==
  /\ last.op = "Next"
  /\ last.ok
  /\ \A it \in {iters[last.it]} :
       /\ it.next # Nil
       /\ it.next # leftmost
       /\ it.i = 0
       /\ HasNext(World, it)
       /\ compare(last.rkey, keyAt(World, it.next, 0)) < 0
  /\ Len(yielded[last.it]) >= 2

\* C35: iteration is single-pass.  On a tree that is not modified, every
\* key Next returns is strictly greater than the one before; once HasNext
\* is false it stays false and every later Next fails, leaving the
\* iterator where it is: the iterator never restarts.
C35_IterationIsSinglePass ==
  [][/\ \A j \in DOMAIN iters :
          /\ \A n \in 1..(Len(yielded'[j]) - 1) :
               compare(yielded'[j][n][1], yielded'[j][n + 1][1]) < 0
          /\ (iters[j].live /\ iters'[j].live /\ ~HasNext(World, iters[j])) =>
               \A after \in {World'}, it \in {iters'[j]} :
                 /\ ~HasNext(after, it)
                 /\ it = iters[j]
                 /\ yielded'[j] = yielded[j]
     /\ (last'.op = "HasNext" /\ ~HasNext(World, iters[last'.it])) =>
          ~last'.ok
     /\ (last'.op = "Next" /\ ~HasNext(World, iters[last'.it])) =>
          /\ ~last'.had
          /\ last'.panic
          /\ ~last'.ok
          /\ UNCHANGED <<iterVars, treeVars>>
     /\ (last'.op = "Next" /\ last'.ok /\ last'.n0 >= 1) =>
          /\ Len(yielded'[last'.it]) = last'.n0 + 1
          /\ yielded'[last'.it][last'.n0 + 1][1] = last'.rkey
          /\ compare(yielded[last'.it][last'.n0][1], last'.rkey) < 0]_vars

\* an iterator that has yielded several pairs and reached the end has been
\* asked for one more: that Next has failed and the iterator is still at
\* the end
C35_Witness ==
  /\ last.op = "Next"
  /\ last.panic
  /\ ~last.had
  /\ Len(yielded[last.it]) >= 3
  /\ Len(yielded[last.it]) = size
  /\ iters[last.it].live
  /\ iters[last.it].next = Nil
  /\ ~HasNext(World, iters[last.it])

\* C36: no Get, Put, Delete or guarded Next on a tree of order >= 3 raises
\* a runtime fault (an index outside the key or pointer array of a node, a
\* nil node or pointer dereferenced, a value read as a node or a node read
\* as a value), and the tree is always such that none can: every node has
\* order - 1 key slots and order pointer slots and at most order - 1 keys,
\* every non-root node has a sibling, the slots of an internal node up to
\* its key count refer to nodes, the slots of a leaf below its key count
\* hold values and its last slot is nil or refers to a leaf.
C36_NoRuntimeFault ==
  /\ constructed => order >= 3
  /\ last.op \in {"Get", "Put", "Delete"} => ~last.panic
  /\ (last.op = "Next" /\ last.had) => (~last.panic /\ last.ok)
  /\ \A j \in DOMAIN iters :
       (iters[j].live /\ HasNext(World, iters[j])) =>
         ~IterNext(World, iters[j]).panic
  /\ ForEach(World).ok
  /\ \A id \in TreeNodes :
       \A nd \in {nodes[id]} :
         /\ Len(nd.keys) = order - 1
         /\ Len(nd.pointers) = order
         /\ nd.keyNum >= 0
         /\ nd.keyNum <= order - 1
         /\ IF nd.leaf
            THEN /\ \A i \in 1..nd.keyNum : okValue(nd.pointers[i])
                 /\ \/ nd.pointers[order] = NilP
                    \/ /\ okNode(nd.pointers[order])
                       /\ IsNode(World, asNode(nd.pointers[order]))
                       /\ isLeaf(World, asNode(nd.pointers[order]))
            ELSE /\ nd.keyNum >= 1
                 /\ \A i \in 1..(nd.keyNum + 1) :
                      /\ okNode(nd.pointers[i])
                      /\ IsNode(World, asNode(nd.pointers[i]))
         /\ id # root =>
              /\ IsNode(World, nd.parent)
              /\ ~isLeaf(World, nd.parent)
              /\ pointerPositionOf(World, nd.parent, id) >= 0
              /\ \/ leftSiblingOf(World, id) # Nil
                 \/ rightSiblingOf(World, id) # Nil

\* a Delete has made an internal node borrow from its right sibling and a
\* node of the tree is full
C36_Witness ==
  /\ last.op = "Delete"
  /\ last.ok
  /\ ~last.panic
  /\ "internalBorrowRight" \in last.ev
  /\ \E id \in TreeNodes : keyNumOf(World, id) = order - 1

\* ------------------------------------------ prepared trees of every order
\* Callers that open a tree of any order up to MaxPreparedOrder and bring it
\* into one of two shapes before the call that is looked at: the full tree
\* (a full root over full leaves), where one Put splits a leaf and the root,
\* and the minimal tree (a root with one key over two internal nodes with
\* minKeyNum keys over leaves with minKeyNum keys), where one Delete merges
\* a leaf and an internal node.  The keys are two bytes, big-endian; the
\* stored keys are the even numbers from 2 on, so that every place between
\* two stored keys has a key to put.
orderedKey(i) == <<i \div 256, i % 256>>

\* the i-th stored key (from 0) of a prepared tree
storedKey(i) == orderedKey(2 * i + 2)

\* a leaf with the stored keys first .. first + count - 1; nxt is the next
\* leaf or Nil
preparedLeaf(o, parent, first, count, nxt) ==
  [leaf |-> TRUE, parent |-> parent,
   keys |-> [i \in 1..(o - 1) |->
               IF i <= count THEN storedKey(first + i - 1) ELSE << >>],
   keyNum |-> count,
   pointers |-> [i \in 1..o |->
                   IF i <= count THEN ValP(<<1>>)
                   ELSE IF i = o /\ nxt # Nil THEN NodeP(nxt)
                   ELSE NilP]]

\* an internal node over the children child .. child + count, which are
\* leaves or internal nodes that each span the given number of stored keys;
\* first is the first stored key below the node
preparedInternal(o, parent, child, count, first, span) ==
  [leaf |-> FALSE, parent |-> parent,
   keys |-> [i \in 1..(o - 1) |->
               IF i <= count THEN storedKey(first + i * span) ELSE << >>],
   keyNum |-> count,
   pointers |-> [i \in 1..o |->
                   IF i <= count + 1 THEN NodeP(child + i - 1) ELSE NilP]]

\* the full tree of order o: node 1 is the root with o - 1 keys, nodes
\* 2 .. o + 1 are its leaves with o - 1 keys each
FullTree(o, m) ==
  [root |-> 1, leftmost |-> 2, order |-> o, size |-> o * (o - 1),
   minKeyNum |-> m,
   nodes |-> [id \in 1..(o + 1) |->
                IF id = 1 THEN preparedInternal(o, Nil, 2, o - 1, 0, o - 1)
                ELSE preparedLeaf(o, 1, (id - 2) * (o - 1), o - 1,
                                  IF id = o + 1 THEN Nil ELSE id + 1)],
   fault |-> FALSE, diverged |-> FALSE, ev |-> {}]

\* the minimal tree of order o with minKeyNum m: node 1 is the root with
\* one key, nodes 2 and 3 are internal with m keys, nodes 4 .. 2m + 5 are
\* the leaves with m keys each
MinimalTree(o, m) ==
  [root |-> 1, leftmost |-> 4, order |-> o, size |-> 2 * (m + 1) * m,
   minKeyNum |-> m,
   nodes |-> [id \in 1..(2 * m + 5) |->
                IF id = 1
                THEN preparedInternal(o, Nil, 2, 1, 0, (m + 1) * m)
                ELSE IF id <= 3
                THEN preparedInternal(o, 1, 4 + (id - 2) * (m + 1), m,
                                      (id - 2) * (m + 1) * m, m)
                ELSE preparedLeaf(o, IF id - 4 <= m THEN 2 ELSE 3,
                                  (id - 4) * m, m,
                                  IF id = 2 * m + 5 THEN Nil ELSE id + 1)],
   fault |-> FALSE, diverged |-> FALSE, ev |-> {}]

\* the map the callers hold once they have put the first count stored keys
preparedContent(count) == [k \in { storedKey(i) : i \in 0..(count - 1) } |-> <<1>>]

\* the keys held by the leaves of the tree
leafKeys ==
  UNION { { nodes[id].keys[i] : i \in 1..nodes[id].keyNum } :
            id \in { x \in TreeNodes : isLeaf(World, x) } }

\* Put of the key that belongs at place pos of the full tree
PutIntoFullTree(pos) ==
  /\ Idle
  /\ root = Nil
  /\ hist = "fresh"
  /\ LET returns(r) ==
           /\ last' = [CallRecord("Put", orderedKey(2 * pos + 1), <<1>>, r)
                         EXCEPT !.size0 = order * (order - 1)]
           /\ Install(r.w, iters)
           /\ stored' = (orderedKey(2 * pos + 1) :> <<1>>)
                           @@ preparedContent(order * (order - 1))
     IN  returns(Put(FullTree(order, minKeyNum), orderedKey(2 * pos + 1),
                     <<1>>))
  /\ hist' = "mixed"
  /\ UNCHANGED <<cfgVars, yielded, drainVars>>

\* Delete of the stored key at place pos of the minimal tree
DeleteFromMinimalTree(pos) ==
  /\ Idle
  /\ root = Nil
  /\ hist = "fresh"
  /\ LET returns(r) ==
           /\ last' = [CallRecord("Delete", storedKey(pos), << >>, r)
                         EXCEPT !.had = TRUE, !.old = <<1>>,
                                !.size0 = 2 * (minKeyNum + 1) * minKeyNum]
           /\ Install(r.w, iters)
           /\ stored' = [k \in DOMAIN preparedContent(
                                        2 * (minKeyNum + 1) * minKeyNum)
                                   \ {storedKey(pos)} |-> <<1>>]
     IN  returns(Delete(MinimalTree(order, minKeyNum), storedKey(pos)))
  /\ hist' = "mixed"
  /\ UNCHANGED <<cfgVars, yielded, drainVars>>

NextPrepared ==
  \/ \E o \in (MinOrder - 1)..MaxPreparedOrder : NewTree(o)
  \/ Return
  \/ \E pos \in 0..(order * (order - 1)) : PutIntoFullTree(pos)
  \/ \E pos \in 0..(2 * (minKeyNum + 1) * minKeyNum - 1) :
       DeleteFromMinimalTree(pos)

SpecPrepared == Init /\ [][NextPrepared]_vars

\* C37: for every order >= 3 the minKeyNum fixed at construction is
\* ceil(order / 2) - 1, the ceiling taken as an integer, and 1 <= minKeyNum
\* and 2 * minKeyNum <= order - 1; so a node that underflows and is merged
\* with a sibling at minKeyNum (with the separator pulled down, for internal
\* nodes) holds at most order - 1 keys, and both halves of every split hold
\* at least minKeyNum keys.
C37_MinKeyNumFitsSplitsAndMerges ==
  constructed =>
    /\ order >= 3
    \* minKeyNum + 1 is the least integer that is at least order / 2
    /\ 2 * (minKeyNum + 1) >= order
    /\ 2 * minKeyNum < order
    /\ 1 <= minKeyNum
    /\ 2 * minKeyNum <= order - 1
    /\ last.op \in {"Put", "Delete"} =>
         /\ ~last.panic
         /\ ~last.diverged
         /\ root # Nil
         /\ leafKeys = DOMAIN stored
         /\ \A id \in TreeNodes :
              /\ keyNumOf(World, id) <= order - 1
              /\ id # root => keyNumOf(World, id) >= minKeyNum
    \* the two halves of the leaf and of the root that the Put has split
    /\ last.op = "Put" =>
         /\ last.ev = {"leafSplit", "internalSplit", "newRoot"}
         /\ Height(World) = 3
         /\ size = last.size0 + 1
         /\ keyNumOf(World, root) = 1
         /\ \A half \in {asNode(ptrAt(World, root, 0)),
                          asNode(ptrAt(World, root, 1))} :
              /\ ~isLeaf(World, half)
              /\ keyNumOf(World, half) >= minKeyNum
              /\ keyNumOf(World, half) <= order - 1 - minKeyNum
         /\ \A leaf \in {findLeaf(World, last.key)} :
              /\ keyNumOf(World, leaf) >= minKeyNum
              /\ keyNumOf(World, leaf) <= order - minKeyNum
              /\ keyNumOf(World, leaf)
                   \in {ceil(order - 1, 2), order - ceil(order - 1, 2)}
    \* the leaf and the internal node that the Delete has merged
    /\ last.op = "Delete" =>
         /\ last.ok
         /\ last.ev \cap {"internalMergeLeft", "internalMergeRight"} # {}
         /\ last.ev \cap {"leafMergeLeft", "leafMergeRight"} # {}
         /\ "rootCollapse" \in last.ev
         /\ Height(World) = 2
         /\ size = last.size0 - 1
         /\ keyNumOf(World, root) = 2 * minKeyNum
         /\ \E id \in TreeNodes \ {root} :
              /\ keyNumOf(World, id) = 2 * minKeyNum - 1
              /\ \A other \in TreeNodes \ {root, id} :
                   keyNumOf(World, other) = minKeyNum
         /\ \A id \in TreeNodes \ {root} :
              /\ isLeaf(World, id)
              /\ keyNumOf(World, id) \in {minKeyNum, 2 * minKeyNum - 1}

\* at an odd order a Delete from the minimal tree has merged two internal
\* nodes into a node that is exactly full
C37_Witness ==
  /\ last.op = "Delete"
  /\ last.ok
  /\ order = MaxPreparedOrder - 1
  /\ order % 2 = 1
  /\ "internalMergeLeft" \in last.ev
  /\ keyNumOf(World, root) = order - 1
  /\ minKeyNum = (order - 1) \div 2

====
